---- MODULE Spec2Model ----
(***************************************************************************)
(* CrabLib: crab::StaticRingBuffer<T, Capacity> (src/src/crab/ring_buffer.h) *)
(* One producer thread and one consumer thread.  Every action is one       *)
(* memory access of the code.  The two indices are std::atomic: each is    *)
(* kept as the part of its modification order that the other thread may    *)
(* still read (an acquire load returns some store not older than the last  *)
(* one that thread has observed, not necessarily the newest); the owner of *)
(* an index always reads its own newest store.                             *)
(***************************************************************************)
EXTENDS Integers, Sequences, FiniteSets, TLC

\* ------------------------------------------------------------------ bounds
Capacity == 3
MaxPush == 4
NumValues == 2
MaxCycles == 10
MaxClears == 2
NumThreads == 2
NumGuards == 2
MaxLocks == 3
VecCapacity == 3
SliceLen == 3

Values == 1..NumValues
Slots == 0..(Capacity - 1)

VARIABLES
    m_storage,     \* slot index -> [st, val]; st: raw | partial | live | moved
    m_head,        \* modification order of m_head still readable by the producer
    m_tail,        \* modification order of m_tail still readable by the consumer
    p_pc,          \* producer position inside try_push / try_emplace
    p_op,          \* producer operation in flight (or the last one)
    p_arg,         \* value passed to the push in flight
    p_tail,        \* local current_tail
    p_next,        \* local next_tail
    p_ret,         \* result of the producer's last call
    c_pc,          \* consumer position inside try_pop / front
    c_op,          \* consumer operation in flight (or the last one)
    c_head,        \* local current_head
    c_value,       \* local value (moved out of the slot)
    c_ret,         \* result of the consumer's last call
    c_avail,       \* at the consumer's call: a completed push was not yet popped
    c_seen,        \* at the consumer's call: the consumer had observed such a push
    pushed,        \* values of the pushes that returned true, in order
    popped,        \* values returned by try_pop, in order
    p_avail,       \* at the producer's call: a pop completed since the last push
    p_seen,        \* at the producer's call: the producer had observed a free slot
    freed,         \* a try_pop returned Some since the last successful push
    dtor_count,    \* number of destructor calls on elements stored in slots
    p_head,        \* local head of size_approx on the producer thread
    p_q,           \* result of the producer thread's last query
    c_q,           \* result of the consumer thread's last query
    cycle,         \* completed push/pop cycles of the wraparound run
    trivial,       \* T is trivially destructible
    alive,         \* the buffer has not been destroyed
    clears         \* number of clear_unsafe calls so far

\* crab::Mutex<T> (src/src/crab/mutex.h)
VARIABLES
    m_mutex,       \* the LockType object is locked
    m_owns_lock,   \* Guard object -> "absent" (no such object) | "true" | "false"
    t_pc,          \* thread -> "idle" | "lock" (blocked inside lock())
    t_guard,       \* thread -> the Guard object its lock() call will return
    t_ret,         \* thread -> result of its last lock() / try_lock()
    lock_count,    \* successful acquisitions of the LockType object
    unlock_count   \* calls of LockType::unlock

\* crab::StaticVector<T, Capacity> (src/src/crab/static_vector.h)
VARIABLES
    vec_storage,   \* index -> [st, val]; st: raw | live
    vec_size,      \* m_size
    vec_ret,       \* result of the last call
    vec_pushed,    \* values added and not yet removed, oldest first
    vec_panic      \* CRAB_ASSERT has failed: crab::panic was called

\* crab::Slice<T> (src/src/crab/slice.h) over a buffer of SliceLen elements
VARIABLES
    slice_data,    \* m_data, as an offset into the buffer
    slice_size,    \* m_size
    slice_ret,     \* result of the last call
    slice_access   \* buffer offsets the last call formed a reference to

\* try_push called by several threads at once, against the single-producer
\* rule (src/src/crab/ring_buffer.h)
VARIABLES
    mp_pc,         \* thread -> position inside its try_push call
    mp_arg,        \* thread -> value passed to its call
    mp_tail,       \* thread -> local current_tail
    mp_next,       \* thread -> local next_tail
    mp_ret,        \* thread -> result of its last call
    mp_from,       \* thread -> which store of m_tail its call loaded
    mp_obs,        \* thread -> newest store of m_tail it has observed
    mp_hist,       \* modification order of m_tail, all of it
    mp_calls       \* try_push calls begun by these threads

\* size_approx observed against the indices (src/src/crab/ring_buffer.h)
VARIABLES
    size_at_call   \* thread -> distance from head to tail when its
                   \* size_approx call began

vars == <<m_storage, m_head, m_tail, p_pc, p_op, p_arg, p_tail, p_next, p_ret,
          c_pc, c_op, c_head, c_value, c_ret, c_avail, c_seen, pushed, popped,
          p_avail, p_seen, freed, dtor_count, p_head, p_q, c_q, cycle, trivial,
          alive, clears, m_mutex, m_owns_lock, t_pc, t_guard, t_ret,
          lock_count, unlock_count, vec_storage, vec_size, vec_ret, vec_pushed,
          vec_panic,
          slice_data, slice_size, slice_ret, slice_access, mp_pc, mp_arg,
          mp_tail, mp_next, mp_ret, mp_from, mp_obs, mp_hist, mp_calls,
          size_at_call>>

mutex_vars == <<m_mutex, m_owns_lock, t_pc, t_guard, t_ret, lock_count,
                unlock_count>>
vec_vars == <<vec_storage, vec_size, vec_ret, vec_pushed, vec_panic>>
slice_vars == <<slice_data, slice_size, slice_ret, slice_access>>
mp_vars == <<mp_pc, mp_arg, mp_tail, mp_next, mp_ret, mp_from, mp_obs, mp_hist,
             mp_calls>>
\* the other objects of the library and the threads that break the
\* single-producer rule, untouched by the ring buffer used as intended
size_vars == <<size_at_call>>
lib == <<mutex_vars, vec_vars, slice_vars, mp_vars, size_vars>>

shared == <<m_storage, m_head, m_tail>>
p_vars == <<p_pc, p_op, p_arg, p_tail, p_next, p_ret, p_avail, p_seen>>
c_vars == <<c_pc, c_op, c_head, c_value, c_ret, c_avail, c_seen>>
\* untouched by try_push, try_emplace, try_pop and front
aux == <<p_head, p_q, c_q, cycle, trivial, alive, clears, lib>>
\* the ring buffer, untouched by the other objects
ring == <<shared, p_vars, c_vars, pushed, popped, freed, dtor_count, p_head,
          p_q, c_q, cycle, trivial, alive, clears, mp_vars, size_vars>>

\* ---------------------------------------------------------------- helpers
Last(s) == s[Len(s)]

\* newest value of each atomic (the end of its modification order)
HeadVal == Last(m_head)
TailVal == Last(m_tail)

\* variant: a buffer of a single slot (Capacity = 1)
increment_single(index) == (index + 1) % 1

\* variant: wraps one past the last slot
increment_wide(index) == (index + 1) % (Capacity + 1)

\* variant: wraps at the usable capacity instead of the number of slots
increment_short(index) == (index + 1) % (Capacity - 1)

increment(index) == (index + 1) % Capacity

\* variant: reports the number of slots instead of the usable capacity
capacity_slots == Capacity

capacity == Capacity - 1

RawSlot == [st |-> "raw", val |-> 0]
LiveSlot(v) == [st |-> "live", val |-> v]

NoRet == [tag |-> "none", val |-> 0]
NoneRet == [tag |-> "None", val |-> 0]
SomeRet(v) == [tag |-> "Some", val |-> v]
NullPtr == [tag |-> "nullptr", val |-> 0]
SlotPtr(i) == [tag |-> "ptr", val |-> i]
BoolRet(op, b) == [tag |-> op, val |-> IF b THEN 1 ELSE 0]
SizeRet(n) == [tag |-> "size_approx", val |-> n]
CapacityRet(n) == [tag |-> "capacity", val |-> n]

\* variant: the wrapped formula is used whatever the order of the indices
SizeOf_always_wrap(head, tail) == Capacity - head + tail

\* variant: the wrapped case takes the plain difference of the indices
SizeOf_abs(head, tail) == IF tail >= head THEN tail - head ELSE head - tail

\* size_approx: cyclic distance computed from the two loaded indices
\* (lines 209-212)
SizeOf(head, tail) == IF tail >= head THEN tail - head ELSE Capacity - head + tail

\* cyclic interval [h, t) of slot indices
InRange(i, h, t) == IF h <= t THEN h <= i /\ i < t ELSE i >= h \/ i < t
Distance(h, t) == (t - h + Capacity) % Capacity

\* what T value = std::move(*ptr) yields: the element, or anything when the
\* slot holds no constructed element (read of an uninitialized object)
MovedOut(slot) == IF slot.st = "live" THEN {slot.val} ELSE Values \cup {0}

\* ------------------------------------------------------------------- Init
Threads == 1..NumThreads
\* the Guard objects a thread may hold: local variables and Option<Guard>s
Guards == Threads \X (1..NumGuards)

\* the buffer a Slice views, as in slice_tests: element i holds i + 1
Buffer == [i \in 0..(SliceLen - 1) |-> i + 1]

VecSlots == 0..(VecCapacity - 1)

\* results of the StaticVector and Slice calls: Result / Option with the
\* payload of its Ok, Some or Err
LibRet(op, tag, a, b) == [op |-> op, tag |-> tag, a |-> a, b |-> b]
NoLibRet == LibRet("none", "none", 0, 0)

\* Mutex(), StaticVector() and Slice(Container&)
LibInit ==
    /\ m_mutex = FALSE
    /\ m_owns_lock = [g \in Guards |-> "absent"]
    /\ t_pc = [t \in Threads |-> "idle"]
    /\ t_guard = [t \in Threads |-> 1]
    /\ t_ret = [t \in Threads |-> "none"]
    /\ lock_count = 0
    /\ unlock_count = 0
    /\ vec_storage = [i \in VecSlots |-> RawSlot]
    /\ vec_size = 0
    /\ vec_ret = NoLibRet
    /\ vec_pushed = <<>>
    /\ vec_panic = FALSE
    /\ slice_data = 0
    /\ slice_size = SliceLen
    /\ slice_ret = NoLibRet
    /\ slice_access = {}
    /\ mp_pc = [t \in Threads |-> "idle"]
    /\ mp_arg = [t \in Threads |-> 0]
    /\ mp_tail = [t \in Threads |-> 0]
    /\ mp_next = [t \in Threads |-> 0]
    /\ mp_ret = [t \in Threads |-> "none"]
    /\ mp_from = [t \in Threads |-> 0]
    /\ mp_obs = [t \in Threads |-> 1]
    /\ mp_hist = <<0>>
    /\ mp_calls = 0
    /\ size_at_call = [producer |-> 0, consumer |-> 0]

\* variant: the constructor leaves the two indices uninitialised
Init_uninitialised ==
    /\ m_storage = [i \in Slots |-> RawSlot]
    /\ \E h \in Slots : m_head = <<h>>
    /\ \E t \in Slots : m_tail = <<t>>
    /\ p_pc = "idle" /\ p_op = "none" /\ p_arg = 0 /\ p_tail = 0 /\ p_next = 0
    /\ p_ret = "none"
    /\ c_pc = "idle" /\ c_op = "none" /\ c_head = 0 /\ c_value = 0
    /\ c_ret = NoRet /\ c_avail = FALSE /\ c_seen = FALSE
    /\ pushed = <<>>
    /\ popped = <<>>
    /\ p_avail = FALSE /\ p_seen = FALSE /\ freed = FALSE
    /\ dtor_count = 0
    /\ p_head = 0 /\ p_q = NoRet /\ c_q = NoRet
    /\ cycle = 0
    /\ trivial = FALSE
    /\ alive = TRUE
    /\ clears = 0
    /\ LibInit

Init ==
    /\ m_storage = [i \in Slots |-> RawSlot]
    /\ m_head = <<0>>
    /\ m_tail = <<0>>
    /\ p_pc = "idle" /\ p_op = "none" /\ p_arg = 0 /\ p_tail = 0 /\ p_next = 0
    /\ p_ret = "none"
    /\ c_pc = "idle" /\ c_op = "none" /\ c_head = 0 /\ c_value = 0
    /\ c_ret = NoRet /\ c_avail = FALSE /\ c_seen = FALSE
    /\ pushed = <<>>
    /\ popped = <<>>
    /\ p_avail = FALSE /\ p_seen = FALSE /\ freed = FALSE
    /\ dtor_count = 0
    /\ p_head = 0 /\ p_q = NoRet /\ c_q = NoRet
    /\ cycle = 0
    /\ trivial = FALSE
    /\ alive = TRUE
    /\ clears = 0
    /\ LibInit

\* --------------------------------------------------------------- producer
\* call + relaxed load of m_tail + increment (lines 85-86, 105-106, 124-125)
push_begin(op, v) ==
    /\ p_pc = "idle"
    /\ Len(pushed) < MaxPush
    /\ p_pc' = "check"
    /\ p_op' = op
    /\ p_arg' = v
    /\ p_tail' = TailVal
    /\ p_next' = increment(TailVal)
    /\ p_ret' = "none"
    /\ p_avail' = freed
    /\ p_seen' = (increment(TailVal) # m_head[1])
    /\ p_q' = NoRet
    /\ UNCHANGED <<shared, c_vars, pushed, popped, freed, dtor_count, p_head,
                   c_q, cycle, trivial, alive,
                   clears, lib>>

try_push_copy(v) == push_begin("try_push_copy", v)
try_push_move(v) == push_begin("try_push_move", v)
try_emplace(v) == push_begin("try_emplace", v)

\* variant: the full test is missing
push_check_nofull ==
    /\ p_pc = "check"
    /\ \E k \in 1..Len(m_head) : m_head' = SubSeq(m_head, k, Len(m_head))
    /\ p_pc' = "construct"
    /\ UNCHANGED <<m_storage, m_tail, p_op, p_avail, p_seen, p_arg, p_tail, p_next, p_ret,
                   c_vars, pushed, popped,
                   freed, dtor_count, aux>>

\* variant: the element is constructed before the full test
push_check_construct_first ==
    /\ p_pc = "check"
    /\ m_storage' = [m_storage EXCEPT ![p_tail] = LiveSlot(p_arg)]
    /\ \E k \in 1..Len(m_head) :
        /\ m_head' = SubSeq(m_head, k, Len(m_head))
        /\ IF p_next = m_head[k]
              THEN /\ p_pc' = "idle"
                   /\ p_ret' = "false"
                   /\ p_arg' = 0
              ELSE /\ p_pc' = "construct"
                   /\ UNCHANGED <<p_ret, p_arg>>
    /\ UNCHANGED <<m_tail, p_op, p_avail, p_seen, p_tail, p_next, c_vars, pushed, popped,
                   freed, dtor_count, aux>>

\* variant: the push waits for a free slot instead of returning false
push_check_wait ==
    /\ p_pc = "check"
    /\ \E k \in 1..Len(m_head) :
        /\ m_head' = SubSeq(m_head, k, Len(m_head))
        /\ p_next # m_head[k]
    /\ p_pc' = "construct"
    /\ UNCHANGED <<m_storage, m_tail, p_op, p_arg, p_avail, p_seen, p_tail,
                   p_next, p_ret, c_vars, pushed, popped, freed, dtor_count,
                   aux>>

\* variant: the full test also rejects the last free slot
push_check_off_by_one ==
    /\ p_pc = "check"
    /\ \E k \in 1..Len(m_head) :
        /\ m_head' = SubSeq(m_head, k, Len(m_head))
        /\ IF p_next = m_head[k] \/ increment(p_next) = m_head[k]
              THEN /\ p_pc' = "idle"
                   /\ p_ret' = "false"
                   /\ p_arg' = 0
              ELSE /\ p_pc' = "construct"
                   /\ UNCHANGED <<p_ret, p_arg>>
    /\ UNCHANGED <<m_storage, m_tail, p_op, p_avail, p_seen, p_tail, p_next,
                   c_vars, pushed, popped, freed, dtor_count, aux>>

\* acquire load of m_head and the full test (lines 88-90, 108-110, 127-129)
push_check ==
    /\ p_pc = "check"
    /\ \E k \in 1..Len(m_head) :
        /\ m_head' = SubSeq(m_head, k, Len(m_head))
        /\ IF p_next = m_head[k]
              THEN /\ p_pc' = "idle"
                   /\ p_ret' = "false"
                   /\ p_arg' = 0
              ELSE /\ p_pc' = "construct"
                   /\ UNCHANGED <<p_ret, p_arg>>
    /\ UNCHANGED <<m_storage, m_tail, p_op, p_avail, p_seen, p_tail, p_next, c_vars, pushed, popped,
                   freed, dtor_count, aux>>

\* variant: the new tail is stored as soon as construction starts
push_construct_begin_early ==
    /\ p_pc = "construct"
    /\ m_storage' = [m_storage EXCEPT ![p_tail] = [st |-> "partial", val |-> 0]]
    /\ m_tail' = Append(m_tail, p_next)
    /\ p_pc' = "constructing"
    /\ UNCHANGED <<m_head, p_op, p_avail, p_seen, p_arg, p_tail, p_next, p_ret, c_vars,
                   pushed, popped,
                   freed, dtor_count, aux>>

\* variant: the element is constructed one slot before current_tail
push_construct_begin_prev ==
    /\ p_pc = "construct"
    /\ m_storage' = [m_storage EXCEPT ![(p_tail + Capacity - 1) % Capacity] =
                        [st |-> "partial", val |-> 0]]
    /\ p_pc' = "constructing"
    /\ UNCHANGED <<m_head, m_tail, p_op, p_avail, p_seen, p_arg, p_tail, p_next, p_ret, c_vars,
                   pushed, popped,
                   freed, dtor_count, aux>>

\* placement new starts (lines 93, 112, 131)
push_construct_begin ==
    /\ p_pc = "construct"
    /\ m_storage' = [m_storage EXCEPT ![p_tail] = [st |-> "partial", val |-> 0]]
    /\ p_pc' = "constructing"
    /\ UNCHANGED <<m_head, m_tail, p_op, p_avail, p_seen, p_arg, p_tail, p_next, p_ret, c_vars,
                   pushed, popped,
                   freed, dtor_count, aux>>

\* variant: the slot is default-constructed instead of built from the argument
push_construct_end_default ==
    /\ p_pc = "constructing"
    /\ m_storage' = [m_storage EXCEPT ![p_tail] = LiveSlot(0)]
    /\ p_pc' = "publish"
    /\ UNCHANGED <<m_head, m_tail, p_op, p_arg, p_avail, p_seen, p_tail, p_next,
                   p_ret, c_vars, pushed, popped, freed, dtor_count, aux>>

\* placement new completes (lines 93, 112, 131)
push_construct_end ==
    /\ p_pc = "constructing"
    /\ m_storage' = [m_storage EXCEPT ![p_tail] = LiveSlot(p_arg)]
    /\ p_pc' = "publish"
    /\ UNCHANGED <<m_head, m_tail, p_op, p_avail, p_seen, p_arg, p_tail, p_next, p_ret, c_vars,
                   pushed, popped,
                   freed, dtor_count, aux>>

\* variant: the stored tail skips one slot
push_publish_skip ==
    /\ p_pc = "publish"
    /\ m_tail' = Append(m_tail, increment(p_next))
    /\ p_pc' = "idle"
    /\ p_ret' = "true"
    /\ pushed' = Append(pushed, p_arg)
    /\ p_arg' = 0
    /\ freed' = FALSE
    /\ UNCHANGED <<m_storage, m_head, p_op, p_avail, p_seen, p_tail, p_next, c_vars, popped,
                   dtor_count, aux>>

\* variant: stores current_tail instead of next_tail
push_publish_stale ==
    /\ p_pc = "publish"
    /\ m_tail' = Append(m_tail, p_tail)
    /\ p_pc' = "idle"
    /\ p_ret' = "true"
    /\ pushed' = Append(pushed, p_arg)
    /\ p_arg' = 0
    /\ freed' = FALSE
    /\ UNCHANGED <<m_storage, m_head, p_op, p_avail, p_seen, p_tail, p_next, c_vars, popped,
                   dtor_count, aux>>

\* release store of m_tail, return true (lines 95-96, 113-114, 132-133)
push_publish ==
    /\ p_pc = "publish"
    /\ m_tail' = Append(m_tail, p_next)
    /\ p_pc' = "idle"
    /\ p_ret' = "true"
    /\ pushed' = Append(pushed, p_arg)
    /\ p_arg' = 0
    /\ freed' = FALSE
    /\ UNCHANGED <<m_storage, m_head, p_op, p_avail, p_seen, p_tail, p_next, c_vars, popped,
                   dtor_count, aux>>

\* --------------------------------------------------------------- consumer
\* call + relaxed load of m_head (lines 159, 181)
consumer_begin(op) ==
    /\ c_pc = "idle"
    /\ c_pc' = "check"
    /\ c_op' = op
    /\ c_head' = HeadVal
    /\ c_value' = 0
    /\ c_ret' = NoRet
    /\ c_avail' = (Len(pushed) > Len(popped))
    /\ c_seen' = (m_tail[1] # HeadVal)
    /\ c_q' = NoRet
    /\ UNCHANGED <<shared, p_vars, pushed, popped, freed, dtor_count, p_head,
                   p_q, cycle, trivial, alive,
                   clears, lib>>

try_pop == consumer_begin("try_pop")
front == consumer_begin("front")

\* variant: the empty test compares head with itself
try_pop_check_self ==
    /\ c_pc = "check" /\ c_op = "try_pop"
    /\ \E k \in 1..Len(m_tail) :
        /\ m_tail' = SubSeq(m_tail, k, Len(m_tail))
        /\ IF c_head = c_head
              THEN /\ c_pc' = "idle"
                   /\ c_ret' = NoneRet
              ELSE /\ c_pc' = "move"
                   /\ UNCHANGED c_ret
    /\ UNCHANGED <<m_storage, m_head, c_op, c_head, c_value, c_avail, c_seen,
                   p_vars, pushed, popped,
                   freed, dtor_count, aux>>

\* variant: head is advanced before the empty test
try_pop_check_advance ==
    /\ c_pc = "check" /\ c_op = "try_pop"
    /\ m_head' = Append(m_head, increment(c_head))
    /\ \E k \in 1..Len(m_tail) :
        /\ m_tail' = SubSeq(m_tail, k, Len(m_tail))
        /\ IF c_head = m_tail[k]
              THEN /\ c_pc' = "idle"
                   /\ c_ret' = NoneRet
              ELSE /\ c_pc' = "move"
                   /\ UNCHANGED c_ret
    /\ UNCHANGED <<m_storage, c_op, c_head, c_value, c_avail, c_seen,
                   p_vars, pushed, popped,
                   freed, dtor_count, aux>>

\* variant: the empty test compares the successor of head with tail
try_pop_check_off_by_one ==
    /\ c_pc = "check" /\ c_op = "try_pop"
    /\ \E k \in 1..Len(m_tail) :
        /\ m_tail' = SubSeq(m_tail, k, Len(m_tail))
        /\ IF c_head = m_tail[k] \/ increment(c_head) = m_tail[k]
              THEN /\ c_pc' = "idle"
                   /\ c_ret' = NoneRet
              ELSE /\ c_pc' = "move"
                   /\ UNCHANGED c_ret
    /\ UNCHANGED <<m_storage, m_head, c_op, c_head, c_value, c_avail, c_seen,
                   p_vars, pushed, popped,
                   freed, dtor_count, aux>>

\* try_pop: acquire load of m_tail and the empty test (lines 161-163)
try_pop_check ==
    /\ c_pc = "check" /\ c_op = "try_pop"
    /\ \E k \in 1..Len(m_tail) :
        /\ m_tail' = SubSeq(m_tail, k, Len(m_tail))
        /\ IF c_head = m_tail[k]
              THEN /\ c_pc' = "idle"
                   /\ c_ret' = NoneRet
              ELSE /\ c_pc' = "move"
                   /\ UNCHANGED c_ret
    /\ UNCHANGED <<m_storage, m_head, c_op, c_head, c_value, c_avail, c_seen,
                   p_vars, pushed, popped,
                   freed, dtor_count, aux>>

\* variant: the newest element is taken instead of the oldest
try_pop_move_last ==
    /\ c_pc = "move"
    /\ c_value' \in MovedOut(m_storage[(TailVal + Capacity - 1) % Capacity])
    /\ m_storage' = [m_storage EXCEPT ![c_head] = [st |-> "moved", val |-> 0]]
    /\ c_pc' = "destroy"
    /\ UNCHANGED <<m_head, m_tail, c_op, c_head, c_ret, c_avail, c_seen,
                   p_vars, pushed, popped,
                   freed, dtor_count, aux>>

\* T value = std::move(*ptr) (lines 166-167)
try_pop_move ==
    /\ c_pc = "move"
    /\ c_value' \in MovedOut(m_storage[c_head])
    /\ m_storage' = [m_storage EXCEPT ![c_head] = [st |-> "moved", val |-> 0]]
    /\ c_pc' = "destroy"
    /\ UNCHANGED <<m_head, m_tail, c_op, c_head, c_ret, c_avail, c_seen,
                   p_vars, pushed, popped,
                   freed, dtor_count, aux>>

\* variant: the destructor call is missing
try_pop_destroy_leak ==
    /\ c_pc = "destroy"
    /\ c_pc' = "publish"
    /\ UNCHANGED <<shared, c_op, c_head, c_value, c_ret, c_avail, c_seen,
                   p_vars, pushed, popped,
                   freed, dtor_count, aux>>

\* ptr->~T() (line 168)
try_pop_destroy ==
    /\ c_pc = "destroy"
    /\ m_storage' = [m_storage EXCEPT ![c_head] = RawSlot]
    /\ c_pc' = "publish"
    /\ dtor_count' = dtor_count + 1
    /\ UNCHANGED <<m_head, m_tail, c_op, c_head, c_value, c_ret, c_avail, c_seen,
                   p_vars, pushed, popped,
                   freed, aux>>

\* variant: head advances by two
try_pop_publish_skip ==
    /\ c_pc = "publish"
    /\ m_head' = Append(m_head, increment(increment(c_head)))
    /\ c_pc' = "idle"
    /\ c_ret' = SomeRet(c_value)
    /\ popped' = Append(popped, c_value)
    /\ c_value' = 0
    /\ freed' = TRUE
    /\ UNCHANGED <<m_storage, m_tail, c_op, c_head, c_avail, c_seen,
                   p_vars, pushed,
                   dtor_count, aux>>

\* release store of m_head, return Some(value) (lines 170-172)
try_pop_publish ==
    /\ c_pc = "publish"
    /\ m_head' = Append(m_head, increment(c_head))
    /\ c_pc' = "idle"
    /\ c_ret' = SomeRet(c_value)
    /\ popped' = Append(popped, c_value)
    /\ c_value' = 0
    /\ freed' = TRUE
    /\ UNCHANGED <<m_storage, m_tail, c_op, c_head, c_avail, c_seen,
                   p_vars, pushed,
                   dtor_count, aux>>

\* variant: front consumes the element it returns
front_check_advance ==
    /\ c_pc = "check" /\ c_op = "front"
    /\ \E k \in 1..Len(m_tail) :
        /\ m_tail' = SubSeq(m_tail, k, Len(m_tail))
        /\ IF c_head = m_tail[k]
              THEN c_ret' = NullPtr /\ UNCHANGED m_head
              ELSE /\ c_ret' = SlotPtr(c_head)
                   /\ m_head' = Append(m_head, increment(c_head))
    /\ c_pc' = "idle"
    /\ UNCHANGED <<m_storage, c_op, c_head, c_value, c_avail, c_seen,
                   p_vars, pushed, popped,
                   freed, dtor_count, aux>>

\* front: acquire load of m_tail, return nullptr or slot_ptr (lines 183-187)
front_check ==
    /\ c_pc = "check" /\ c_op = "front"
    /\ \E k \in 1..Len(m_tail) :
        /\ m_tail' = SubSeq(m_tail, k, Len(m_tail))
        /\ c_ret' = IF c_head = m_tail[k] THEN NullPtr ELSE SlotPtr(c_head)
    /\ c_pc' = "idle"
    /\ UNCHANGED <<m_storage, m_head, c_op, c_head, c_value, c_avail, c_seen,
                   p_vars, pushed, popped,
                   freed, dtor_count, aux>>

\* ---------------------------------------------------------------- queries
\* variant: is_full compares tail itself with head
is_full_no_increment ==
    /\ p_pc = "idle"
    /\ p_pc' = "full_check"
    /\ p_next' = TailVal
    /\ p_q' = NoRet
    /\ p_ret' = "none"
    /\ UNCHANGED <<shared, p_op, p_arg, p_tail, p_avail, p_seen, c_vars,
                   pushed, popped, freed, dtor_count, p_head, c_q, cycle,
                   trivial, alive,
                   clears, lib>>

\* is_full: relaxed load of m_tail and increment (line 140)
is_full ==
    /\ p_pc = "idle"
    /\ p_pc' = "full_check"
    /\ p_next' = increment(TailVal)
    /\ p_q' = NoRet
    /\ p_ret' = "none"
    /\ UNCHANGED <<shared, p_op, p_arg, p_tail, p_avail, p_seen, c_vars,
                   pushed, popped, freed, dtor_count, p_head, c_q, cycle,
                   trivial, alive,
                   clears, lib>>

\* variant: is_full stores the head value it loaded
is_full_check_store ==
    /\ p_pc = "full_check"
    /\ \E k \in 1..Len(m_head) :
        /\ m_head' = Append(m_head, m_head[k])
        /\ p_q' = BoolRet("is_full", p_next = m_head[k])
    /\ p_pc' = "idle"
    /\ UNCHANGED <<m_storage, m_tail, p_op, p_arg, p_tail, p_next, p_ret,
                   p_avail, p_seen, c_vars, pushed, popped, freed, dtor_count,
                   p_head, c_q, cycle, trivial, alive,
                   clears, lib>>

\* is_full: acquire load of m_head and comparison (line 141)
is_full_check ==
    /\ p_pc = "full_check"
    /\ \E k \in 1..Len(m_head) :
        /\ m_head' = SubSeq(m_head, k, Len(m_head))
        /\ p_q' = BoolRet("is_full", p_next = m_head[k])
    /\ p_pc' = "idle"
    /\ UNCHANGED <<m_storage, m_tail, p_op, p_arg, p_tail, p_next, p_ret,
                   p_avail, p_seen, c_vars, pushed, popped, freed, dtor_count,
                   p_head, c_q, cycle, trivial, alive,
                   clears, lib>>

\* is_empty: relaxed load of m_head (line 194)
is_empty ==
    /\ c_pc = "idle"
    /\ c_pc' = "empty_check"
    /\ c_head' = HeadVal
    /\ c_q' = NoRet
    /\ c_ret' = NoRet
    /\ UNCHANGED <<shared, p_vars, c_op, c_value, c_avail, c_seen,
                   pushed, popped, freed, dtor_count, p_head, p_q, cycle,
                   trivial, alive,
                   clears, lib>>

\* variant: is_empty compares the successor of head with tail
is_empty_check_off_by_one ==
    /\ c_pc = "empty_check"
    /\ \E k \in 1..Len(m_tail) :
        /\ m_tail' = SubSeq(m_tail, k, Len(m_tail))
        /\ c_q' = BoolRet("is_empty", increment(c_head) = m_tail[k])
    /\ c_pc' = "idle"
    /\ UNCHANGED <<m_storage, m_head, p_vars, c_op, c_head, c_value, c_ret,
                   c_avail, c_seen, pushed, popped, freed, dtor_count, p_head,
                   p_q, cycle, trivial, alive,
                   clears, lib>>

\* is_empty: acquire load of m_tail and comparison (line 195)
is_empty_check ==
    /\ c_pc = "empty_check"
    /\ \E k \in 1..Len(m_tail) :
        /\ m_tail' = SubSeq(m_tail, k, Len(m_tail))
        /\ c_q' = BoolRet("is_empty", c_head = m_tail[k])
    /\ c_pc' = "idle"
    /\ UNCHANGED <<m_storage, m_head, p_vars, c_op, c_head, c_value, c_ret,
                   c_avail, c_seen, pushed, popped, freed, dtor_count, p_head,
                   p_q, cycle, trivial, alive,
                   clears, lib>>

\* size_approx on the producer thread: acquire load of m_head (line 206)
p_size_approx ==
    /\ p_pc = "idle"
    /\ \E k \in 1..Len(m_head) :
        /\ m_head' = SubSeq(m_head, k, Len(m_head))
        /\ p_head' = m_head[k]
    /\ p_pc' = "size_tail"
    /\ p_q' = NoRet
    /\ p_ret' = "none"
    /\ UNCHANGED <<m_storage, m_tail, p_op, p_arg, p_tail, p_next,
                   p_avail, p_seen, c_vars, pushed, popped, freed, dtor_count,
                   c_q, cycle, trivial, alive,
                   clears, lib>>

\* size_approx on the producer thread: load of m_tail, result (lines 207-212)
p_size_approx_tail ==
    /\ p_pc = "size_tail"
    /\ p_q' = SizeRet(SizeOf(p_head, TailVal))
    /\ p_pc' = "idle"
    /\ UNCHANGED <<shared, p_op, p_arg, p_tail, p_next, p_ret, p_avail, p_seen,
                   c_vars, pushed, popped, freed, dtor_count, p_head, c_q,
                   cycle, trivial, alive,
                   clears, lib>>

\* size_approx on the consumer thread: load of m_head (line 206)
c_size_approx ==
    /\ c_pc = "idle"
    /\ c_pc' = "size_tail"
    /\ c_head' = HeadVal
    /\ c_q' = NoRet
    /\ c_ret' = NoRet
    /\ UNCHANGED <<shared, p_vars, c_op, c_value, c_avail, c_seen,
                   pushed, popped, freed, dtor_count, p_head, p_q, cycle,
                   trivial, alive,
                   clears, lib>>

\* variant: the two loaded indices are passed in the wrong order
c_size_approx_tail_swapped ==
    /\ c_pc = "size_tail"
    /\ \E k \in 1..Len(m_tail) :
        /\ m_tail' = SubSeq(m_tail, k, Len(m_tail))
        /\ c_q' = SizeRet(SizeOf(m_tail[k], c_head))
    /\ c_pc' = "idle"
    /\ UNCHANGED <<m_storage, m_head, p_vars, c_op, c_head, c_value, c_ret,
                   c_avail, c_seen, pushed, popped, freed, dtor_count, p_head,
                   p_q, cycle, trivial, alive,
                   clears, lib>>

\* size_approx on the consumer thread: acquire load of m_tail, result
\* (lines 207-212)
c_size_approx_tail ==
    /\ c_pc = "size_tail"
    /\ \E k \in 1..Len(m_tail) :
        /\ m_tail' = SubSeq(m_tail, k, Len(m_tail))
        /\ c_q' = SizeRet(SizeOf(c_head, m_tail[k]))
    /\ c_pc' = "idle"
    /\ UNCHANGED <<m_storage, m_head, p_vars, c_op, c_head, c_value, c_ret,
                   c_avail, c_seen, pushed, popped, freed, dtor_count, p_head,
                   p_q, cycle, trivial, alive,
                   clears, lib>>

\* capacity() (lines 218-220)
get_capacity ==
    /\ p_pc = "idle"
    /\ p_q' = CapacityRet(capacity)
    /\ p_ret' = "none"
    /\ UNCHANGED <<shared, p_pc, p_op, p_arg, p_tail, p_next, p_avail,
                   p_seen, c_vars, pushed, popped, freed, dtor_count, p_head,
                   c_q, cycle, trivial, alive,
                   clears, lib>>

\* ------------------------------------------------------------------- Next
Producer ==
    \/ \E v \in Values : try_push_copy(v)
    \/ \E v \in Values : try_push_move(v)
    \/ \E v \in Values : try_emplace(v)
    \/ push_check
    \/ push_construct_begin
    \/ push_construct_end
    \/ push_publish

Consumer ==
    \/ try_pop
    \/ try_pop_check
    \/ try_pop_move
    \/ try_pop_destroy
    \/ try_pop_publish
    \/ front
    \/ front_check

Next == Producer \/ Consumer

Spec == Init /\ [][Next]_vars

\* one operation at a time, each ordered after the previous one (a single
\* thread as in ring_buffer_tests, or threads that synchronise between
\* calls): the other side is idle and every load returns the newest store
SeqStep ==
    /\ p_pc' = "idle" \/ c_pc' = "idle"
    /\ (p_pc = "check" /\ p_pc' # "check") => Len(m_head') = 1
    /\ (c_pc = "check" /\ c_pc' # "check") => Len(m_tail') = 1

SeqNext ==
    \/ Producer /\ SeqStep
    \/ Consumer /\ SeqStep

SeqSpec == Init /\ [][SeqNext]_vars

\* the wraparound run: cycles of Capacity - 1 pushes followed by
\* Capacity - 1 pops, one operation at a time; pushed and popped record the
\* current cycle
CyclePush ==
    /\ Producer
    /\ SeqStep
    /\ p_pc = "idle" => (popped = <<>> /\ Len(pushed) < capacity)

CyclePop ==
    /\ try_pop \/ try_pop_check \/ try_pop_move \/ try_pop_destroy \/ try_pop_publish
    /\ SeqStep
    /\ c_pc = "idle" => (Len(pushed) = capacity /\ Len(popped) < capacity)

cycle_end ==
    /\ p_pc = "idle" /\ c_pc = "idle"
    /\ Len(popped) = capacity
    /\ cycle < MaxCycles
    /\ cycle' = cycle + 1
    /\ pushed' = <<>>
    /\ popped' = <<>>
    /\ UNCHANGED <<shared, p_vars, c_vars, freed, dtor_count, p_head, p_q, c_q,
                   trivial, alive,
                   clears, lib>>

CycleNext == CyclePush \/ CyclePop \/ cycle_end

CycleSpec == Init /\ [][CycleNext]_vars

\* ------------------------------------------------------------- lifecycle
\* the loop of ~StaticRingBuffer and clear_unsafe: destroy slot head, advance
\* head, until head = tail (lines 57-60, 231-234)
RECURSIVE Drained(_, _, _)
Drained(storage, head, tail) ==
    IF head = tail THEN storage
    ELSE Drained([storage EXCEPT ![head] = RawSlot], increment(head), tail)

\* number of destructor calls that loop makes
RECURSIVE DrainCalls(_, _)
DrainCalls(head, tail) ==
    IF head = tail THEN 0 ELSE 1 + DrainCalls(increment(head), tail)

\* variant: the loop starts at slot 0 instead of head
destructor_from_zero ==
    /\ alive /\ p_pc = "idle" /\ c_pc = "idle"
    /\ alive' = FALSE
    /\ IF trivial
          THEN UNCHANGED <<m_storage, dtor_count>>
          ELSE /\ m_storage' = Drained(m_storage, 0, TailVal)
               /\ dtor_count' = dtor_count + DrainCalls(0, TailVal)
    /\ UNCHANGED <<m_head, m_tail, p_vars, c_vars, pushed, popped, freed,
                   p_head, p_q, c_q, cycle, trivial, clears, lib>>

\* ~StaticRingBuffer, run with no operation in flight (lines 52-62)
destructor ==
    /\ alive /\ p_pc = "idle" /\ c_pc = "idle"
    /\ alive' = FALSE
    /\ IF trivial
          THEN UNCHANGED <<m_storage, dtor_count>>
          ELSE /\ m_storage' = Drained(m_storage, HeadVal, TailVal)
               /\ dtor_count' = dtor_count + DrainCalls(HeadVal, TailVal)
    /\ UNCHANGED <<m_head, m_tail, p_vars, c_vars, pushed, popped, freed,
                   p_head, p_q, c_q, cycle, trivial, clears, lib>>

\* variant: the indices are reset without destroying the elements
clear_unsafe_no_drain ==
    /\ alive /\ p_pc = "idle" /\ c_pc = "idle"
    /\ clears < MaxClears
    /\ clears' = clears + 1
    /\ m_head' = <<0>>
    /\ m_tail' = <<0>>
    /\ pushed' = <<>> /\ popped' = <<>>
    /\ p_ret' = "none" /\ c_ret' = NoRet /\ p_q' = NoRet /\ c_q' = NoRet
    /\ UNCHANGED <<m_storage, dtor_count, p_pc, p_op, p_arg, p_tail, p_next,
                   p_avail, p_seen, c_pc, c_op, c_head, c_value, c_avail,
                   c_seen, freed, p_head, cycle, trivial, alive, lib>>

\* clear_unsafe, run with no operation in flight (lines 227-238); the
\* recorded history and results start afresh
clear_unsafe ==
    /\ alive /\ p_pc = "idle" /\ c_pc = "idle"
    /\ clears < MaxClears
    /\ clears' = clears + 1
    /\ IF trivial
          THEN UNCHANGED <<m_storage, dtor_count>>
          ELSE /\ m_storage' = Drained(m_storage, HeadVal, TailVal)
               /\ dtor_count' = dtor_count + DrainCalls(HeadVal, TailVal)
    /\ m_head' = <<0>>
    /\ m_tail' = <<0>>
    /\ pushed' = <<>> /\ popped' = <<>>
    /\ p_ret' = "none" /\ c_ret' = NoRet /\ p_q' = NoRet /\ c_q' = NoRet
    /\ UNCHANGED <<p_pc, p_op, p_arg, p_tail, p_next, p_avail, p_seen, c_pc,
                   c_op, c_head, c_value, c_avail, c_seen, freed, p_head,
                   cycle, trivial, alive, lib>>

\* the buffer of a trivially or non-trivially destructible element type
LifeInit ==
    /\ m_storage = [i \in Slots |-> RawSlot]
    /\ m_head = <<0>>
    /\ m_tail = <<0>>
    /\ p_pc = "idle" /\ p_op = "none" /\ p_arg = 0 /\ p_tail = 0 /\ p_next = 0
    /\ p_ret = "none"
    /\ c_pc = "idle" /\ c_op = "none" /\ c_head = 0 /\ c_value = 0
    /\ c_ret = NoRet /\ c_avail = FALSE /\ c_seen = FALSE
    /\ pushed = <<>>
    /\ popped = <<>>
    /\ p_avail = FALSE /\ p_seen = FALSE /\ freed = FALSE
    /\ dtor_count = 0
    /\ p_head = 0 /\ p_q = NoRet /\ c_q = NoRet
    /\ cycle = 0
    /\ trivial \in BOOLEAN
    /\ alive = TRUE
    /\ clears = 0
    /\ LibInit

\* the two threads with every operation that may run concurrently
ProducerQueries ==
    \/ is_full
    \/ is_full_check
    \/ p_size_approx
    \/ p_size_approx_tail
    \/ get_capacity

ConsumerQueries ==
    \/ is_empty
    \/ is_empty_check
    \/ c_size_approx
    \/ c_size_approx_tail

\* the values pushed do not matter to the queries: one value
ProducerOne ==
    \/ try_push_copy(1)
    \/ try_push_move(1)
    \/ try_emplace(1)
    \/ push_check
    \/ push_construct_begin
    \/ push_construct_end
    \/ push_publish

NextAll == ProducerOne \/ ProducerQueries \/ Consumer \/ ConsumerQueries

SpecAll == Init /\ [][NextAll]_vars

\* one operation at a time, each ordered after the previous one, over the
\* whole life of the buffer
LifeStep ==
    /\ alive
    /\ SeqStep
    /\ (p_pc = "full_check" \/ p_pc' = "size_tail") => Len(m_head') = 1
    /\ (c_pc \in {"empty_check", "size_tail"} /\ c_pc' = "idle") => Len(m_tail') = 1

LifeNext ==
    \/ ProducerOne /\ LifeStep
    \/ Consumer /\ LifeStep
    \/ (is_empty \/ is_empty_check) /\ LifeStep
    \/ clear_unsafe
    \/ destructor

LifeSpec == LifeInit /\ [][LifeNext]_vars

\* the two threads with every concurrent operation, then clear_unsafe once
\* the threads are done
FrameNext ==
    \/ clears = 0 /\ NextAll
    \/ clear_unsafe

FrameSpec == Init /\ [][FrameNext]_vars

\* ------------------------------------------------------------------ Mutex
OwningGuards == {g \in Guards : m_owns_lock[g] = "true"}

\* the Guard objects that exist, and those about to be returned by lock();
\* at most NumGuards exist at a time
LiveGuards == {g \in Guards : m_owns_lock[g] # "absent"}
PendingGuards == {t \in Threads : t_pc[t] = "lock"}
RoomForGuard == Cardinality(LiveGuards) + Cardinality(PendingGuards) < NumGuards

\* lock(): the call, up to m_mutex.lock() (lines 185-186)
mutex_lock(t, n) ==
    /\ t_pc[t] = "idle"
    /\ m_owns_lock[<<t, n>>] = "absent"
    /\ lock_count < MaxLocks
    /\ RoomForGuard
    /\ t_pc' = [t_pc EXCEPT ![t] = "lock"]
    /\ t_guard' = [t_guard EXCEPT ![t] = n]
    /\ t_ret' = [t_ret EXCEPT ![t] = "none"]
    /\ UNCHANGED <<m_mutex, m_owns_lock, lock_count, unlock_count, ring,
                   vec_vars, slice_vars>>

\* variant: lock() does not wait for the LockType object
mutex_lock_return_nowait(t) ==
    /\ t_pc[t] = "lock"
    /\ m_mutex' = TRUE
    /\ m_owns_lock' = [m_owns_lock EXCEPT ![<<t, t_guard[t]>>] = "true"]
    /\ lock_count' = lock_count + 1
    /\ t_pc' = [t_pc EXCEPT ![t] = "idle"]
    /\ t_ret' = [t_ret EXCEPT ![t] = "Guard"]
    /\ t_guard' = [t_guard EXCEPT ![t] = 1]
    /\ UNCHANGED <<unlock_count, ring, vec_vars, slice_vars>>

\* lock(): m_mutex.lock() returns once the LockType object is free, then
\* Guard(m_mutex, m_data, true) (lines 186-187, 147-148)
mutex_lock_return(t) ==
    /\ t_pc[t] = "lock"
    /\ ~m_mutex
    /\ m_mutex' = TRUE
    /\ m_owns_lock' = [m_owns_lock EXCEPT ![<<t, t_guard[t]>>] = "true"]
    /\ lock_count' = lock_count + 1
    /\ t_pc' = [t_pc EXCEPT ![t] = "idle"]
    /\ t_ret' = [t_ret EXCEPT ![t] = "Guard"]
    /\ t_guard' = [t_guard EXCEPT ![t] = 1]
    /\ UNCHANGED <<unlock_count, ring, vec_vars, slice_vars>>

\* try_lock(): Some(Guard) if m_mutex.try_lock() succeeds, else None
\* (lines 194-199)
mutex_try_lock(t, n) ==
    /\ t_pc[t] = "idle"
    /\ m_owns_lock[<<t, n>>] = "absent"
    /\ lock_count < MaxLocks
    /\ IF ~m_mutex
          THEN /\ RoomForGuard
               /\ m_mutex' = TRUE
               /\ m_owns_lock' = [m_owns_lock EXCEPT ![<<t, n>>] = "true"]
               /\ lock_count' = lock_count + 1
               /\ t_ret' = [t_ret EXCEPT ![t] = "Some"]
          ELSE /\ t_ret' = [t_ret EXCEPT ![t] = "None"]
               /\ UNCHANGED <<m_mutex, m_owns_lock, lock_count>>
    /\ UNCHANGED <<t_pc, t_guard, unlock_count, ring, vec_vars, slice_vars>>

\* variant: the moved-from Guard keeps m_owns_lock
guard_move_keep(t, from, to) ==
    /\ t_pc[t] = "idle"
    /\ m_owns_lock[<<t, from>>] # "absent"
    /\ m_owns_lock[<<t, to>>] = "absent"
    /\ RoomForGuard
    /\ m_owns_lock' = [m_owns_lock EXCEPT
                          ![<<t, to>>] = m_owns_lock[<<t, from>>]]
    /\ UNCHANGED <<m_mutex, t_pc, t_guard, t_ret, lock_count, unlock_count,
                   ring, vec_vars, slice_vars>>

\* Guard(Guard&& other) (lines 91-95)
guard_move(t, from, to) ==
    /\ t_pc[t] = "idle"
    /\ m_owns_lock[<<t, from>>] # "absent"
    /\ m_owns_lock[<<t, to>>] = "absent"
    /\ RoomForGuard
    /\ m_owns_lock' = [m_owns_lock EXCEPT
                          ![<<t, to>>] = m_owns_lock[<<t, from>>],
                          ![<<t, from>>] = "false"]
    /\ UNCHANGED <<m_mutex, t_pc, t_guard, t_ret, lock_count, unlock_count,
                   ring, vec_vars, slice_vars>>

\* Guard& operator=(Guard&& other) (lines 97-109); from = to is self-assignment
guard_move_assign(t, from, to) ==
    /\ t_pc[t] = "idle"
    /\ m_owns_lock[<<t, from>>] # "absent"
    /\ m_owns_lock[<<t, to>>] # "absent"
    /\ IF from = to
          THEN UNCHANGED <<m_mutex, m_owns_lock, unlock_count>>
          ELSE /\ IF m_owns_lock[<<t, to>>] = "true"
                     THEN /\ m_mutex' = FALSE
                          /\ unlock_count' = unlock_count + 1
                     ELSE UNCHANGED <<m_mutex, unlock_count>>
               /\ m_owns_lock' = [m_owns_lock EXCEPT
                                     ![<<t, to>>] = m_owns_lock[<<t, from>>],
                                     ![<<t, from>>] = "false"]
    /\ t_ret' = [t_ret EXCEPT ![t] = "none"]
    /\ UNCHANGED <<t_pc, t_guard, lock_count, ring, vec_vars, slice_vars>>

\* ~Guard() (lines 111-115)
guard_destroy(t, n) ==
    /\ t_pc[t] = "idle"
    /\ m_owns_lock[<<t, n>>] # "absent"
    /\ IF m_owns_lock[<<t, n>>] = "true"
          THEN /\ m_mutex' = FALSE
               /\ unlock_count' = unlock_count + 1
          ELSE UNCHANGED <<m_mutex, unlock_count>>
    /\ m_owns_lock' = [m_owns_lock EXCEPT ![<<t, n>>] = "absent"]
    /\ t_ret' = [t_ret EXCEPT ![t] = "none"]
    /\ UNCHANGED <<t_pc, t_guard, lock_count, ring, vec_vars, slice_vars>>

MutexNext ==
    \E t \in Threads :
        \/ \E n \in 1..NumGuards : mutex_lock(t, n)
        \/ mutex_lock_return(t)
        \/ \E n \in 1..NumGuards : mutex_try_lock(t, n)
        \/ \E from, to \in 1..NumGuards : guard_move(t, from, to)
        \/ \E from, to \in 1..NumGuards : guard_move_assign(t, from, to)
        \/ \E n \in 1..NumGuards : guard_destroy(t, n)

MutexSpec == Init /\ [][MutexNext]_vars

\* ----------------------------------------------------------- StaticVector
\* is_full() (line 133)
vec_is_full == vec_size >= VecCapacity

\* Err(CapacityExceeded{requested, capacity})
CapacityExceeded(op, requested) ==
    LibRet(op, "CapacityExceeded", requested, VecCapacity)
\* Err(OutOfBounds{index, size})
OutOfBounds(op, index, size) == LibRet(op, "OutOfBounds", index, size)

\* new (data() + m_size) T(value); ++m_size (lines 259-260, 376-377)
VecAppend(v) ==
    /\ vec_storage' = [vec_storage EXCEPT ![vec_size] = LiveSlot(v)]
    /\ vec_size' = vec_size + 1
    /\ vec_pushed' = Append(vec_pushed, v)

\* --m_size; data()[m_size].~T() repeated down to new_size (lines 329-332, 343)
VecTruncated(new_size) ==
    [i \in VecSlots |-> IF i >= new_size THEN RawSlot ELSE vec_storage[i]]

\* emplace_back_unchecked() repeated up to new_size (lines 346-347)
VecExtended(new_size) ==
    [i \in VecSlots |-> IF i >= vec_size /\ i < new_size
                           THEN LiveSlot(0) ELSE vec_storage[i]]

\* variant: the capacity test lets one element too many in
vec_try_push_back_off_by_one(v) ==
    /\ ~vec_panic
    /\ IF vec_size > VecCapacity
          THEN /\ vec_ret' = CapacityExceeded("try_push_back", vec_size + 1)
               /\ UNCHANGED <<vec_storage, vec_size, vec_pushed>>
          ELSE /\ VecAppend(v)
               /\ vec_ret' = LibRet("try_push_back", "Ok", 0, 0)
    /\ UNCHANGED <<vec_panic, ring, mutex_vars, slice_vars>>

\* try_push_back(const T&) (lines 255-262)
vec_try_push_back(v) ==
    /\ ~vec_panic
    /\ IF vec_size >= VecCapacity
          THEN /\ vec_ret' = CapacityExceeded("try_push_back", vec_size + 1)
               /\ UNCHANGED <<vec_storage, vec_size, vec_pushed>>
          ELSE /\ VecAppend(v)
               /\ vec_ret' = LibRet("try_push_back", "Ok", 0, 0)
    /\ UNCHANGED <<vec_panic, ring, mutex_vars, slice_vars>>

\* try_push_back(T&&) (lines 267-274)
vec_try_push_back_move(v) ==
    /\ ~vec_panic
    /\ IF vec_size >= VecCapacity
          THEN /\ vec_ret' = CapacityExceeded("try_push_back_move", vec_size + 1)
               /\ UNCHANGED <<vec_storage, vec_size, vec_pushed>>
          ELSE /\ VecAppend(v)
               /\ vec_ret' = LibRet("try_push_back_move", "Ok", 0, 0)
    /\ UNCHANGED <<vec_panic, ring, mutex_vars, slice_vars>>

\* try_emplace_back(args...): Ok(reference to the new element)
\* (lines 280-288)
vec_try_emplace_back(v) ==
    /\ ~vec_panic
    /\ IF vec_size >= VecCapacity
          THEN /\ vec_ret' = CapacityExceeded("try_emplace_back", vec_size + 1)
               /\ UNCHANGED <<vec_storage, vec_size, vec_pushed>>
          ELSE /\ VecAppend(v)
               /\ vec_ret' = LibRet("try_emplace_back", "OkRef", vec_size, v)
    /\ UNCHANGED <<vec_panic, ring, mutex_vars, slice_vars>>

\* push_back(const T&) / push_back(T&&) / emplace_back: CRAB_ASSERT, then
\* append (lines 294-309)
vec_push_back(v) ==
    /\ ~vec_panic
    /\ IF vec_size < VecCapacity
          THEN /\ VecAppend(v)
               /\ UNCHANGED vec_panic
          ELSE /\ vec_panic' = TRUE
               /\ UNCHANGED <<vec_storage, vec_size, vec_pushed>>
    /\ vec_ret' = LibRet("push_back", "void", 0, 0)
    /\ UNCHANGED <<ring, mutex_vars, slice_vars>>

\* variant: pop_back removes the first element
vec_pop_back_first ==
    /\ ~vec_panic
    /\ IF vec_size = 0
          THEN /\ vec_ret' = LibRet("pop_back", "None", 0, 0)
               /\ UNCHANGED <<vec_storage, vec_size, vec_pushed>>
          ELSE /\ vec_size' = vec_size - 1
               /\ vec_ret' = LibRet("pop_back", "Some", vec_storage[0].val, 0)
               /\ vec_storage' = [i \in VecSlots |->
                                    IF i + 1 < vec_size
                                       THEN vec_storage[i + 1] ELSE RawSlot]
               /\ vec_pushed' = Tail(vec_pushed)
    /\ UNCHANGED <<vec_panic, ring, mutex_vars, slice_vars>>

\* pop_back() (lines 315-323)
vec_pop_back ==
    /\ ~vec_panic
    /\ IF vec_size = 0
          THEN /\ vec_ret' = LibRet("pop_back", "None", 0, 0)
               /\ UNCHANGED <<vec_storage, vec_size, vec_pushed>>
          ELSE /\ vec_size' = vec_size - 1
               /\ vec_ret' = LibRet("pop_back", "Some", vec_storage[vec_size - 1].val, 0)
               /\ vec_storage' = [vec_storage EXCEPT ![vec_size - 1] = RawSlot]
               /\ vec_pushed' = SubSeq(vec_pushed, 1, Len(vec_pushed) - 1)
    /\ UNCHANGED <<vec_panic, ring, mutex_vars, slice_vars>>

\* pop_back_void() (lines 328-333)
vec_pop_back_void ==
    /\ ~vec_panic
    /\ IF vec_size > 0
          THEN /\ vec_size' = vec_size - 1
               /\ vec_storage' = [vec_storage EXCEPT ![vec_size - 1] = RawSlot]
               /\ vec_pushed' = SubSeq(vec_pushed, 1, Len(vec_pushed) - 1)
          ELSE UNCHANGED <<vec_storage, vec_size, vec_pushed>>
    /\ vec_ret' = LibRet("pop_back_void", "void", 0, 0)
    /\ UNCHANGED <<vec_panic, ring, mutex_vars, slice_vars>>

\* clear() (lines 243-249)
vec_clear ==
    /\ ~vec_panic
    /\ vec_storage' = VecTruncated(0)
    /\ vec_size' = 0
    /\ vec_pushed' = <<>>
    /\ vec_ret' = LibRet("clear", "void", 0, 0)
    /\ UNCHANGED <<vec_panic, ring, mutex_vars, slice_vars>>

\* try_resize(new_size) (lines 339-350)
vec_try_resize(new_size) ==
    /\ ~vec_panic
    /\ IF new_size > VecCapacity
          THEN /\ vec_ret' = CapacityExceeded("try_resize", new_size)
               /\ UNCHANGED <<vec_storage, vec_size, vec_pushed>>
          ELSE /\ vec_storage' = IF new_size < vec_size
                                    THEN VecTruncated(new_size)
                                    ELSE VecExtended(new_size)
               /\ vec_size' = new_size
               /\ vec_pushed' =
                     IF new_size < vec_size
                        THEN SubSeq(vec_pushed, 1, new_size)
                        ELSE vec_pushed \o [k \in 1..(new_size - vec_size) |-> 0]
               /\ vec_ret' = LibRet("try_resize", "Ok", 0, 0)
    /\ UNCHANGED <<vec_panic, ring, mutex_vars, slice_vars>>

\* get(index) (lines 154-159)
vec_get(index) ==
    /\ ~vec_panic
    /\ vec_ret' = IF index >= vec_size
                     THEN OutOfBounds("get", index, vec_size)
                     ELSE LibRet("get", "OkRef", index, vec_storage[index].val)
    /\ UNCHANGED <<vec_storage, vec_size, vec_pushed, vec_panic, ring,
                   mutex_vars, slice_vars>>

VecNext ==
    \/ \E v \in Values : vec_try_push_back(v)
    \/ \E v \in Values : vec_try_push_back_move(v)
    \/ \E v \in Values : vec_try_emplace_back(v)
    \/ \E v \in Values : vec_push_back(v)
    \/ vec_pop_back
    \/ vec_pop_back_void
    \/ vec_clear
    \/ \E n \in 0..(VecCapacity + 1) : vec_try_resize(n)
    \/ \E i \in 0..VecCapacity : vec_get(i)

VecSpec == Init /\ [][VecNext]_vars

\* ------------------------------------------------------------------ Slice
\* the buffer offsets a slice views
SliceRange(data, size) == {a \in 0..(SliceLen - 1) : data <= a /\ a < data + size}

\* the element at a buffer offset; outside the buffer there is none
BufferAt(a) == IF a \in DOMAIN Buffer THEN Buffer[a] ELSE 0

\* Slice(Container& c): view of the whole buffer (lines 90-91)
slice_construct ==
    /\ slice_data' = 0
    /\ slice_size' = SliceLen
    /\ slice_ret' = LibRet("Slice", "void", 0, 0)
    /\ slice_access' = {}
    /\ UNCHANGED <<ring, mutex_vars, vec_vars>>

\* variant: index = size() passes the bounds test
slice_get_inclusive(index) ==
    /\ IF index > slice_size
          THEN /\ slice_ret' = OutOfBounds("get", index, slice_size)
               /\ slice_access' = {}
          ELSE /\ slice_ret' = LibRet("get", "OkRef", slice_data + index,
                                      BufferAt(slice_data + index))
               /\ slice_access' = {slice_data + index}
    /\ UNCHANGED <<slice_data, slice_size, ring, mutex_vars, vec_vars>>

\* get(index): Ok(reference to m_data[index]) or Err(OutOfBounds)
\* (lines 134-140)
slice_get(index) ==
    /\ IF index >= slice_size
          THEN /\ slice_ret' = OutOfBounds("get", index, slice_size)
               /\ slice_access' = {}
          ELSE /\ slice_ret' = LibRet("get", "OkRef", slice_data + index,
                                      BufferAt(slice_data + index))
               /\ slice_access' = {slice_data + index}
    /\ UNCHANGED <<slice_data, slice_size, ring, mutex_vars, vec_vars>>

\* variant: end is not tested against size()
slice_subslice_no_end_check(start, end) ==
    /\ slice_ret' =
          IF start > end
             THEN OutOfBounds("subslice", start, end)
             ELSE LibRet("subslice", "OkSlice", slice_data + start, end - start)
    /\ slice_access' = {}
    /\ UNCHANGED <<slice_data, slice_size, ring, mutex_vars, vec_vars>>

\* subslice(start, end): Ok(Slice(m_data + start, end - start)) or
\* Err(OutOfBounds) (lines 222-231)
slice_subslice(start, end) ==
    /\ slice_ret' =
          IF start > end
             THEN OutOfBounds("subslice", start, end)
             ELSE IF end > slice_size
                     THEN OutOfBounds("subslice", end, slice_size)
                     ELSE LibRet("subslice", "OkSlice", slice_data + start,
                                 end - start)
    /\ slice_access' = {}
    /\ UNCHANGED <<slice_data, slice_size, ring, mutex_vars, vec_vars>>

\* sub.unwrap(): the program goes on with the subslice it obtained
slice_unwrap ==
    /\ slice_ret.tag = "OkSlice"
    /\ slice_data' = slice_ret.a
    /\ slice_size' = slice_ret.b
    /\ slice_ret' = LibRet("unwrap", "void", 0, 0)
    /\ slice_access' = {}
    /\ UNCHANGED <<ring, mutex_vars, vec_vars>>

SliceNext ==
    \/ slice_construct
    \/ \E index \in 0..(SliceLen + 1) : slice_get(index)
    \/ \E start, end \in 0..(SliceLen + 1) : slice_subslice(start, end)
    \/ slice_unwrap

SliceSpec == Init /\ [][SliceNext]_vars

\* ================================================================ claims
IsPrefix(s, t) == Len(s) <= Len(t) /\ SubSeq(t, 1, Len(s)) = s

\* a constructed and not yet destroyed element (a moved-from element is
\* still constructed until its destructor has run)
Constructed(i) == m_storage[i].st \in {"live", "moved"}

Quiescent == p_pc = "idle" /\ c_pc = "idle"

\* values of the slots head, head+1, ... up to tail, in that order
RECURSIVE ContentsFrom(_, _)
ContentsFrom(h, n) ==
    IF n = 0 THEN <<>>
    ELSE <<m_storage[h].val>> \o ContentsFrom((h + 1) % Capacity, n - 1)
Contents == ContentsFrom(HeadVal, Distance(HeadVal, TailVal))

\* C1: the values returned by successful try_pop calls are, in order, a
\* prefix of the values passed to the successful pushes (FIFO).
C1_Fifo == IsPrefix(popped, pushed)

C1_Witness ==
    /\ Len(popped) >= 3
    /\ popped[1] # popped[2]
    /\ p_pc = "constructing"

\* C2: whenever no operation is in flight, successful pops + live elements =
\* successful pushes, and the pushed values are exactly the popped values
\* followed by the buffer contents (nothing lost, nothing duplicated).
C2_Conservation ==
    Quiescent =>
        /\ Len(popped) + Cardinality({i \in Slots : m_storage[i].st = "live"})
              = Len(pushed)
        /\ pushed = popped \o Contents

C2_Witness ==
    /\ Quiescent
    /\ Len(popped) >= 2
    /\ Len(Contents) = Capacity - 1
    /\ TailVal < HeadVal

\* C3: a try_pop that has observed head != tail reads a slot whose
\* construction has completed and that has not been destroyed.
C3_ReadsConstructed ==
    /\ c_pc = "move" => m_storage[c_head].st = "live"
    /\ c_pc = "destroy" => m_storage[c_head].st = "moved"

C3_Witness ==
    /\ c_pc = "move"
    /\ p_pc = "constructing"
    /\ Len(popped) >= 1

\* C4: the producer never constructs into the slot the consumer is moving
\* out of or destroying, and only constructs into a slot holding no element.
C4_SlotHandoff ==
    /\ ~(/\ p_pc \in {"construct", "constructing"}
         /\ c_pc \in {"move", "destroy"}
         /\ p_tail = c_head)
    /\ p_pc = "construct" => m_storage[p_tail].st = "raw"
    /\ p_pc = "constructing" => m_storage[p_tail].st = "partial"

C4_Witness ==
    /\ p_pc = "constructing"
    /\ c_pc = "destroy"
    /\ p_tail = increment(c_head)
    /\ Len(pushed) >= Capacity

\* C5: with no pop so far, a push fails exactly when capacity() = Capacity-1
\* pushes have already succeeded: the first Capacity-1 succeed, the next fails.
C5_CapacityBound ==
    (popped = <<>> /\ p_pc = "idle") =>
        /\ p_ret = "false" => Len(pushed) = capacity
        /\ p_ret = "true" => Len(pushed) <= capacity

C5_Witness ==
    /\ popped = <<>>
    /\ p_pc = "idle"
    /\ p_ret = "false"
    /\ Len(pushed) = Capacity - 1
    /\ c_op = "none"

\* C6 as stated: in every reachable state slot i holds a constructed
\* element iff i lies in the cyclic interval [head, tail).
C6_LiveIffInRange_AllStates ==
    \A i \in Slots : Constructed(i) <=> InRange(i, HeadVal, TailVal)

\* C6 amended: slot i holds a constructed element iff i lies in [head, tail),
\* except slot tail once an in-flight push has constructed it and not yet
\* stored tail, and slot head once an in-flight pop has destroyed it and not
\* yet stored head; with no operation in flight the equivalence is exact.
C6_LiveIffInRange ==
    \A i \in Slots :
        Constructed(i) <=>
            \/ /\ InRange(i, HeadVal, TailVal)
               /\ ~(c_pc = "publish" /\ i = c_head)
            \/ p_pc = "publish" /\ i = p_tail

C6_Witness ==
    /\ Quiescent
    /\ TailVal < HeadVal
    /\ Constructed(Capacity - 1)
    /\ Constructed(0) = (TailVal > 0)
    /\ ~Constructed(TailVal)
    /\ Len(pushed) > Capacity

\* C7: at most Capacity - 1 slots hold an element (even one under
\* construction or being moved out) and at most Capacity - 1 pushed elements
\* are unpopped: one slot is always unused.
C7_OneSlotUnused ==
    /\ Cardinality({i \in Slots : m_storage[i].st # "raw"}) <= Capacity - 1
    /\ Len(pushed) - Len(popped) <= Capacity - 1
    /\ Distance(HeadVal, TailVal) = Len(pushed) - Len(popped)

C7_Witness ==
    /\ Cardinality({i \in Slots : m_storage[i].st # "raw"}) = Capacity - 1
    /\ p_pc = "constructing"
    /\ c_pc = "destroy"

\* the producer / consumer takes a step of a call that has not passed its
\* full / empty test
ProducerTestStep == p_pc' # p_pc /\ p_pc \in {"idle", "check"}
ConsumerTestStep == c_pc' # c_pc /\ c_pc \in {"idle", "check"}
\* the head value loaded by push_check / the tail value loaded by the
\* consumer's check is the oldest one left in the modification order
FullFound == p_pc = "check" /\ p_pc' # p_pc /\ increment(TailVal) = m_head'[1]
EmptyFound == c_pc = "check" /\ c_pc' # c_pc /\ HeadVal = m_tail'[1]

\* C8: a try_push / try_emplace that finds (tail+1) mod Capacity = head
\* returns false, and no step of it changes head, tail or any slot.
C8_FullNoEffect ==
    [][ProducerTestStep =>
          /\ m_storage' = m_storage /\ m_tail' = m_tail /\ HeadVal' = HeadVal
          /\ FullFound <=> (p_ret' = "false")
          /\ FullFound => p_pc' = "idle"]_vars

C8_Witness ==
    /\ p_pc = "idle"
    /\ p_ret = "false"
    /\ p_op = "try_emplace"
    /\ Len(popped) >= 1
    /\ c_pc = "move"

\* C9: a try_pop / front that finds head = tail reports None / nullptr, and
\* no step of it changes head, tail or any slot.
C9_EmptyNoEffect ==
    [][ConsumerTestStep =>
          /\ m_storage' = m_storage /\ m_head' = m_head /\ TailVal' = TailVal
          /\ EmptyFound <=> (c_ret' \in {NoneRet, NullPtr})
          /\ EmptyFound =>
                /\ c_pc' = "idle"
                /\ c_ret' = IF c_op = "try_pop" THEN NoneRet ELSE NullPtr]_vars

C9_Witness ==
    /\ c_pc = "idle"
    /\ c_ret = NullPtr
    /\ Len(popped) >= 1
    /\ p_pc = "publish"

\* C10 as stated: a try_pop that begins after a push returned true whose
\* element is not yet popped returns Some.
C10_CompletedPushPopped ==
    (c_pc = "idle" /\ c_op = "try_pop" /\ c_ret = NoneRet) => ~c_avail

\* C10 amended: a try_pop that begins after the consumer has observed the
\* tail stored by a push whose element is not yet popped returns Some.
C10_ObservedPushPopped ==
    (c_op = "try_pop" /\ c_seen) =>
        /\ c_ret # NoneRet
        /\ c_pc = "idle" => c_ret.tag = "Some"

C10_Witness ==
    /\ c_op = "try_pop"
    /\ c_seen
    /\ c_pc = "idle"
    /\ c_ret.tag = "Some"
    /\ Len(popped) >= 2

\* C11 as stated: a push that begins after a try_pop returned Some, with no
\* push since that pop, returns true.
C11_CompletedPopFreesSlot ==
    (p_pc = "idle" /\ p_ret = "false") => ~p_avail

\* C11 amended: a push that begins after the producer has observed a head
\* value that leaves a slot free returns true.
C11_ObservedPopFreesSlot ==
    p_seen =>
        /\ p_ret # "false"
        /\ p_pc = "idle" => p_ret = "true"

C11_Witness ==
    /\ p_seen
    /\ p_avail
    /\ p_pc = "idle"
    /\ p_ret = "true"
    /\ Len(pushed) > Capacity

\* position of a thread inside its operation, counted in its own steps
P_Rank(pc) ==
    CASE pc = "idle" -> 0
      [] pc \in {"check", "full_check", "size_tail"} -> 1
      [] pc = "construct" -> 2
      [] pc = "constructing" -> 3
      [] pc = "publish" -> 4
C_Rank(pc) ==
    CASE pc = "idle" -> 0
      [] pc \in {"check", "empty_check", "size_tail"} -> 1
      [] pc = "move" -> 2
      [] pc = "destroy" -> 3
      [] pc = "publish" -> 4
MaxRank == 4

\* C12: an operation in flight can always take its next step, whatever the
\* other thread is doing or has stopped doing, every step either returns or
\* moves strictly forward, and no operation takes more than MaxRank + 1 steps.
C12_WaitFree ==
    /\ [](/\ p_pc # "idle" => ENABLED (ProducerOne \/ ProducerQueries)
          /\ c_pc # "idle" => ENABLED (Consumer \/ ConsumerQueries)
          /\ P_Rank(p_pc) <= MaxRank /\ C_Rank(c_pc) <= MaxRank)
    /\ [][/\ p_pc' # p_pc => (p_pc' = "idle" \/ P_Rank(p_pc') > P_Rank(p_pc))
          /\ c_pc' # c_pc => (c_pc' = "idle" \/ C_Rank(c_pc') > C_Rank(c_pc))
          /\ (p_pc' = p_pc /\ c_pc' = c_pc) => (p_pc = "idle" /\ p_q'.tag = "capacity")
       ]_vars

\* the producer is inside try_push with the buffer full while the consumer
\* has stopped in the middle of a try_pop
C12_Witness ==
    /\ p_pc = "check"
    /\ p_next = HeadVal
    /\ Len(m_head) = 1
    /\ c_pc = "move"

\* the FIFO queue the history describes: the pushed values not yet popped
Queue == SubSeq(pushed, Len(popped) + 1, Len(pushed))
PushReturn == p_pc # "idle" /\ p_pc' = "idle"
PopReturn == c_op = "try_pop" /\ c_pc # "idle" /\ c_pc' = "idle"

\* C13: run one operation at a time the buffer is a FIFO queue bounded to
\* Capacity - 1 elements: try_push returns true and appends iff the queue
\* holds fewer than Capacity - 1 elements, try_pop returns Some(oldest) and
\* removes it iff the queue is non-empty, else None; the slots from head to
\* tail hold exactly the queue.
C13_BoundedFifo ==
    [][/\ PushReturn =>
            /\ (p_ret' = "true") <=> (Len(Queue) < Capacity - 1)
            /\ Queue' = IF Len(Queue) < Capacity - 1
                           THEN Append(Queue, p_arg) ELSE Queue
       /\ PopReturn =>
            IF Queue # <<>>
               THEN c_ret' = SomeRet(Queue[1]) /\ Queue' = SubSeq(Queue, 2, Len(Queue))
               ELSE c_ret' = NoneRet /\ Queue' = Queue
       /\ (p_pc' = "idle" /\ c_pc' = "idle") => Contents' = Queue'
      ]_vars

\* the worked example: fill, one push refused, pop, push again, drain, None
C13_Witness ==
    /\ Quiescent
    /\ p_ret = "false"
    /\ Len(pushed) = Capacity
    /\ Len(popped) = Capacity
    /\ c_op = "try_pop"
    /\ c_ret = NoneRet

\* C14: a push of v into an empty buffer followed by try_pop returns Some(v)
\* and leaves the buffer empty again.
C14_RoundTrip ==
    [][(PopReturn /\ Len(Queue) = 1) =>
          /\ c_ret' = SomeRet(pushed[Len(pushed)])
          /\ HeadVal' = TailVal'
          /\ \A i \in Slots : m_storage'[i] = RawSlot
      ]_vars

C14_Witness ==
    /\ Quiescent
    /\ p_op = "try_push_move"
    /\ p_ret = "true"
    /\ c_op = "try_pop"
    /\ c_ret = SomeRet(pushed[Len(pushed)])
    /\ Len(pushed) = Len(popped)
    /\ Len(pushed) >= 2
    /\ pushed[1] # pushed[2]

\* C15: until the first push has returned true, head = tail = 0 and no slot
\* holds an element (unless a first push is constructing one), is_empty() is
\* true, is_full() false, size_approx() 0, try_pop() None and front() null.
C15_FreshIsEmpty ==
    pushed = <<>> =>
        /\ HeadVal = 0 /\ TailVal = 0
        /\ p_pc \notin {"constructing", "publish"} =>
              \A i \in Slots : m_storage[i] = RawSlot
        /\ c_ret \in {NoRet, IF c_op = "try_pop" THEN NoneRet ELSE NullPtr}
        /\ c_q \in {NoRet, BoolRet("is_empty", TRUE), SizeRet(0)}
        /\ p_q \in {NoRet, BoolRet("is_full", FALSE), SizeRet(0),
                    CapacityRet(Capacity - 1)}

C15_Witness ==
    /\ pushed = <<>>
    /\ p_op = "none"
    /\ p_pc = "idle" /\ c_pc = "idle"
    /\ p_q = BoolRet("is_full", FALSE)
    /\ c_q = BoolRet("is_empty", TRUE)
    /\ c_op = "front"

\* C16: in repeated cycles of Capacity - 1 pushes followed by Capacity - 1
\* pops every push succeeds and every pop returns the values of its cycle in
\* push order, although head and tail wrap around; after each cycle the
\* buffer is empty.
C16_Wraparound ==
    /\ p_ret # "false"
    /\ c_ret # NoneRet
    /\ Len(popped) <= Len(pushed)
    /\ \A k \in 1..Len(popped) : popped[k] = pushed[k]
    /\ (p_pc = "idle" /\ c_pc = "idle" /\ Len(popped) = capacity) =>
          /\ popped = pushed
          /\ HeadVal = TailVal
          /\ \A i \in Slots : m_storage[i] = RawSlot

C16_Witness ==
    /\ cycle = MaxCycles
    /\ p_pc = "idle" /\ c_pc = "idle"
    /\ Len(popped) = capacity
    /\ pushed[1] # pushed[2]
    /\ dtor_count = (MaxCycles + 1) * capacity

\* C17: for an element type whose destructor counts its calls, once the
\* buffer is destroyed the count equals the number of successful pushes and
\* no slot holds an element; before that every successful pop has destroyed
\* exactly one element and the rest are still constructed.
C17_DestructorCount ==
    (~trivial /\ clears = 0 /\ Quiescent) =>
        /\ dtor_count + Cardinality({i \in Slots : Constructed(i)})
              = Len(pushed)
        /\ alive => dtor_count = Len(popped)
        /\ ~alive =>
              /\ dtor_count = Len(pushed)
              /\ \A i \in Slots : m_storage[i] = RawSlot

\* k pushes, 0 < j < k pops, then the destructor, the elements left wrapping
\* around the end of the storage
C17_Witness ==
    /\ ~alive /\ ~trivial /\ clears = 0
    /\ Len(popped) >= 1
    /\ Len(popped) < Len(pushed)
    /\ TailVal < HeadVal
    /\ dtor_count = Len(pushed)

ClearPost ==
    /\ m_head' = <<0>>
    /\ m_tail' = <<0>>
    /\ IF trivial
          THEN m_storage' = m_storage /\ dtor_count' = dtor_count
          ELSE /\ \A i \in Slots :
                    m_storage[i].st = "live" <=> InRange(i, HeadVal, TailVal)
               /\ \A i \in Slots :
                    ~InRange(i, HeadVal, TailVal) => m_storage[i] = RawSlot
               /\ dtor_count' = dtor_count
                     + Cardinality({i \in Slots : InRange(i, HeadVal, TailVal)})
               /\ \A i \in Slots : m_storage'[i] = RawSlot

\* C18: clear_unsafe destroys each element of [head, tail) exactly once and
\* nothing else (no destructor call at all for a trivially destructible
\* type), leaves head = tail = 0, and the buffer then behaves as a fresh
\* one: is_empty() is true and exactly Capacity - 1 pushes succeed.
C18_ClearResets ==
    /\ [][clear_unsafe => ClearPost]_vars
    /\ [](clears >= 1 =>
            /\ (pushed = <<>> /\ c_pc = "idle" /\ c_q.tag = "is_empty")
                  => c_q.val = 1
            /\ (popped = <<>> /\ p_pc = "idle") =>
                  /\ p_ret = "false" => Len(pushed) = capacity
                  /\ p_ret = "true" => Len(pushed) <= capacity)

\* a cleared buffer of a non-trivial type that held elements, found empty
\* and then filled until a push is refused
C18_Witness ==
    /\ clears >= 1 /\ ~trivial /\ alive
    /\ dtor_count > Len(popped)
    /\ c_q = BoolRet("is_empty", TRUE)
    /\ popped = <<>>
    /\ p_pc = "idle" /\ p_ret = "false"
    /\ Len(pushed) = Capacity - 1

\* front() has returned a pointer and the consumer has not called anything
\* since
FrontReturned == c_op = "front" /\ c_pc = "idle" /\ c_ret.tag = "ptr"

\* C19: no step of front() changes a slot, head or tail; a non-null result
\* points to slot head, which holds the oldest element not yet popped; a
\* try_pop or front called next finds the buffer non-empty, and then try_pop
\* returns that element and front the same pointer.
C19_FrontPeeks ==
    /\ [][(front \/ front_check) =>
             /\ m_storage' = m_storage
             /\ m_head' = m_head
             /\ TailVal' = TailVal /\ Len(m_tail') <= Len(m_tail)
             /\ UNCHANGED <<pushed, popped, dtor_count>>]_vars
    /\ [](FrontReturned =>
             /\ c_ret = SlotPtr(HeadVal)
             /\ m_storage[HeadVal] = LiveSlot(Queue[1]))
    /\ [][(FrontReturned /\ c_pc' = "check") =>
             c_seen' /\ c_head' = c_ret.val]_vars
    /\ []((c_seen /\ c_pc = "check") =>
             \A k \in 1..Len(m_tail) : m_tail[k] # c_head)
    /\ [][(c_seen /\ c_pc # "idle" /\ c_pc' = "idle") =>
             IF c_op = "try_pop"
                THEN c_ret' = SomeRet(Queue[1]) /\ c_head = HeadVal
                ELSE c_ret' = SlotPtr(HeadVal)]_vars

\* front() returned a pointer into a buffer whose contents wrap around while
\* the producer is constructing the next element
C19_Witness ==
    /\ FrontReturned
    /\ c_seen
    /\ TailVal < HeadVal
    /\ p_pc = "constructing"
    /\ Len(popped) >= 2

\* no store to an index: the values another thread may still read are the
\* same or, after a load by this thread, fewer
NoStore(index, index_after) ==
    \E k \in 1..Len(index) : index_after = SubSeq(index, k, Len(index))

\* C20: try_push, try_emplace and is_full never store to m_head; try_pop,
\* front and is_empty never store to m_tail; size_approx and capacity store
\* to neither; a step that stores to both is a step of clear_unsafe, which
\* stores 0 to each.
C20_SingleWriter ==
    [][/\ (ProducerOne \/ is_full \/ is_full_check) => NoStore(m_head, m_head')
       /\ (Consumer \/ is_empty \/ is_empty_check) => NoStore(m_tail, m_tail')
       /\ (\/ p_size_approx \/ p_size_approx_tail
           \/ c_size_approx \/ c_size_approx_tail
           \/ get_capacity) =>
             NoStore(m_head, m_head') /\ NoStore(m_tail, m_tail')
       /\ (~NoStore(m_head, m_head') /\ ~NoStore(m_tail, m_tail')) =>
             clear_unsafe
       /\ clear_unsafe => m_head' = <<0>> /\ m_tail' = <<0>>
      ]_vars

\* clear_unsafe has overwritten both indices of a buffer that every
\* operation has been called on
C20_Witness ==
    /\ clears >= 1
    /\ HeadVal = 0 /\ TailVal = 0
    /\ Len(popped) = 0 /\ Len(pushed) = 0
    /\ p_op # "none" /\ c_op = "front"
    /\ p_head # 0
    /\ c_head # 0

\* number of slots holding a fully constructed element
LiveCount == Cardinality({i \in Slots : m_storage[i].st = "live"})

\* the full test of try_push and the empty test of try_pop on the newest
\* index values (lines 86-90, 159-163)
FullNow == increment(TailVal) = HeadVal
EmptyNow == HeadVal = TailVal

\* C21 as stated: whenever the other thread has no operation in flight,
\* is_full() returns true iff Capacity - 1 elements are held and is_empty()
\* returns true iff none is, which are the states where try_push returns
\* false and try_pop returns None.
C21_QuiescentQueries ==
    [][/\ (is_full_check /\ c_pc = "idle") =>
             /\ (p_q'.val = 1) <=> (LiveCount = Capacity - 1)
             /\ (p_q'.val = 1) <=> FullNow
       /\ (is_empty_check /\ p_pc = "idle") =>
             /\ (c_q'.val = 1) <=> (LiveCount = 0)
             /\ (c_q'.val = 1) <=> EmptyNow
       /\ (push_check /\ c_pc = "idle") => ((p_ret' = "false") <=> FullNow)
       /\ (try_pop_check /\ p_pc = "idle") => ((c_pc' = "idle") <=> EmptyNow)
      ]_vars

\* C21, for a caller that has already observed the other thread's latest
\* index store: with the other thread idle, is_full() is true iff Capacity-1
\* elements are held, is_empty() is true iff none is, and these are the
\* states where try_push returns false and try_pop returns None.  Without
\* that, a false answer is still exact: is_full() = false means fewer than
\* Capacity - 1 elements and the next try_push succeeds, is_empty() = false
\* means at least one element.
C21_ObservedQueries ==
    /\ [][/\ (is_full_check /\ c_pc = "idle" /\ Len(m_head) = 1) =>
                /\ (p_q'.val = 1) <=> (LiveCount = Capacity - 1)
                /\ (p_q'.val = 1) <=> FullNow
          /\ (is_empty_check /\ p_pc = "idle" /\ Len(m_tail) = 1) =>
                /\ (c_q'.val = 1) <=> (LiveCount = 0)
                /\ (c_q'.val = 1) <=> EmptyNow
          /\ (push_check /\ c_pc = "idle" /\ Len(m_head) = 1) =>
                ((p_ret' = "false") <=> FullNow)
          /\ (try_pop_check /\ p_pc = "idle" /\ Len(m_tail) = 1) =>
                ((c_pc' = "idle") <=> EmptyNow)
          /\ (is_full_check /\ p_q'.val = 0) =>
                Distance(HeadVal, TailVal) < Capacity - 1
          /\ (is_empty_check /\ c_q'.val = 0) =>
                Distance(HeadVal, TailVal) > 0
          /\ (p_q = BoolRet("is_full", FALSE) /\ p_pc' = "check") => p_seen'
         ]_vars
    /\ []((p_seen /\ p_pc = "check") =>
             \A k \in 1..Len(m_head) : m_head[k] # p_next)

\* is_full() has returned true on a buffer that has wrapped around, the
\* consumer idle and its latest pop already observed by the producer
C21_Witness ==
    /\ p_pc = "idle" /\ c_pc = "idle"
    /\ p_q = BoolRet("is_full", TRUE)
    /\ Len(m_head) = 1
    /\ Len(popped) >= 2
    /\ LiveCount = Capacity - 1
    /\ c_q = BoolRet("is_empty", FALSE)

\* C22 as stated: whenever the other thread has no operation in flight,
\* size_approx() returns the number of live elements, the cyclic distance
\* from head to tail.
C22_QuiescentSize ==
    [][/\ (c_size_approx_tail /\ p_pc = "idle") =>
             /\ c_q'.val = LiveCount
             /\ c_q'.val = Distance(HeadVal, TailVal)
       /\ (p_size_approx /\ c_pc = "idle") =>
             /\ SizeOf(p_head', TailVal) = LiveCount
             /\ SizeOf(p_head', TailVal) = Distance(HeadVal, TailVal)
      ]_vars

\* C22, for a caller that has already observed the other thread's latest
\* index store: with the other thread idle size_approx() returns the number
\* of live elements, the cyclic distance from head to tail, also when
\* tail < head.  In every state the result lies in 0 .. Capacity - 1, the
\* consumer never counts more and the producer never fewer elements than
\* the indices span.
C22_ObservedSize ==
    [][/\ (c_size_approx_tail /\ p_pc = "idle" /\ Len(m_tail) = 1) =>
             /\ c_q'.val = LiveCount
             /\ c_q'.val = Distance(HeadVal, TailVal)
       /\ (p_size_approx /\ c_pc = "idle" /\ Len(m_head) = 1) =>
             /\ SizeOf(p_head', TailVal) = LiveCount
             /\ SizeOf(p_head', TailVal) = Distance(HeadVal, TailVal)
       /\ p_size_approx_tail =>
             /\ p_q' = SizeRet(SizeOf(p_head, TailVal))
             /\ p_q'.val \in 0..(Capacity - 1)
             /\ p_q'.val >= Distance(HeadVal, TailVal)
       /\ c_size_approx_tail =>
             /\ c_q'.val \in 0..(Capacity - 1)
             /\ c_q'.val <= Distance(HeadVal, TailVal)
      ]_vars

\* size_approx() has returned Capacity - 1 on the consumer thread and on
\* the producer thread for a full buffer whose contents wrap around
C22_Witness ==
    /\ p_pc = "idle" /\ c_pc = "idle"
    /\ Len(m_tail) = 1 /\ Len(m_head) = 1
    /\ TailVal < HeadVal
    /\ c_q = SizeRet(Capacity - 1)
    /\ p_q = SizeRet(Capacity - 1)
    /\ LiveCount = Capacity - 1

\* C23: at most one Guard owns the lock, and one does exactly while the
\* LockType object is locked; lock() returns only when no Guard owns it;
\* try_lock() returns at once, Some(Guard) if no Guard owns the lock and
\* None if one does.
C23_MutualExclusion ==
    /\ [](/\ Cardinality(OwningGuards) <= 1
          /\ m_mutex <=> OwningGuards # {})
    /\ [][\A t \in Threads :
             /\ mutex_lock_return(t) =>
                   /\ OwningGuards = {}
                   /\ OwningGuards' = {<<t, t_guard[t]>>}
             /\ \A n \in 1..NumGuards : mutex_try_lock(t, n) =>
                   /\ t_pc'[t] = "idle"
                   /\ IF OwningGuards = {}
                         THEN /\ t_ret'[t] = "Some"
                              /\ OwningGuards' = {<<t, n>>}
                         ELSE /\ t_ret'[t] = "None"
                              /\ OwningGuards' = OwningGuards
         ]_vars

\* thread 1 owns the lock through a Guard it was moved into, after an earlier
\* owner released it; thread 2 has had None from try_lock()
C23_Witness ==
    /\ m_owns_lock[<<1, 2>>] = "true"
    /\ m_owns_lock[<<1, 1>>] = "false"
    /\ t_pc[2] = "idle"
    /\ t_ret[2] = "None"
    /\ lock_count >= 2
    /\ unlock_count >= 1

\* C24: LockType::unlock is called once per acquisition, by the destructor
\* of the Guard that owns the lock or by a move-assignment onto it; moving
\* a Guard hands m_owns_lock over, and a moved-from Guard never unlocks;
\* once the owning Guard is gone the lock is free and try_lock() returns
\* Some.
C24_ReleasedOnce ==
    /\ [](/\ unlock_count + Cardinality(OwningGuards) = lock_count
          /\ unlock_count <= lock_count)
    /\ [][\A t \in Threads : \A n \in 1..NumGuards :
             /\ guard_destroy(t, n) =>
                   IF m_owns_lock[<<t, n>>] = "true"
                      THEN /\ unlock_count' = unlock_count + 1
                           /\ ~m_mutex' /\ OwningGuards' = {}
                      ELSE UNCHANGED <<unlock_count, m_mutex>>
                           /\ OwningGuards' = OwningGuards
             /\ \A from \in 1..NumGuards :
                  /\ guard_move(t, from, n) =>
                        /\ m_owns_lock'[<<t, n>>] = m_owns_lock[<<t, from>>]
                        /\ m_owns_lock'[<<t, from>>] = "false"
                        /\ UNCHANGED <<unlock_count, m_mutex>>
                  /\ (guard_move_assign(t, from, n) /\ from # n) =>
                        /\ m_owns_lock'[<<t, n>>] = m_owns_lock[<<t, from>>]
                        /\ m_owns_lock'[<<t, from>>] = "false"
                        /\ IF m_owns_lock[<<t, n>>] = "true"
                              THEN /\ unlock_count' = unlock_count + 1
                                   /\ ~m_mutex'
                              ELSE UNCHANGED <<unlock_count, m_mutex>>
             /\ (mutex_try_lock(t, n) /\ ~m_mutex) =>
                   t_ret'[t] = "Some" /\ m_owns_lock'[<<t, n>>] = "true"
         ]_vars
    /\ [][unlock_count' # unlock_count =>
             \E g \in Guards :
                 m_owns_lock[g] = "true" /\ m_owns_lock'[g] # "true"]_vars

\* the lock was acquired, moved to another Guard, released by that Guard's
\* destructor, and acquired again by try_lock() while the moved-from Guard
\* still exists
C24_Witness ==
    /\ lock_count = MaxLocks
    /\ unlock_count = MaxLocks - 1
    /\ t_ret[2] = "Some"
    /\ m_owns_lock[<<2, 1>>] = "true"
    /\ m_owns_lock[<<1, 1>>] = "false"

\* the elements of the vector, first to last
VecContents == [k \in 1..vec_size |-> vec_storage[k - 1].val]

C26_PopBack ==
    /\ [](VecContents = vec_pushed)
    /\ [][vec_pop_back =>
             IF vec_size = 0
                THEN /\ vec_ret'.tag = "None"
                     /\ UNCHANGED <<vec_storage, vec_size>>
                ELSE /\ vec_ret'.tag = "Some"
                     /\ vec_ret'.a = vec_pushed[Len(vec_pushed)]
                     /\ vec_size' = vec_size - 1
                     /\ VecContents' = SubSeq(VecContents, 1, vec_size - 1)
                     /\ vec_storage'[vec_size - 1] = RawSlot
         ]_vars

\* pop_back has returned the newer of two different elements
C26_Witness ==
    /\ vec_ret.op = "pop_back" /\ vec_ret.tag = "Some"
    /\ vec_size >= 1
    /\ vec_ret.a # vec_storage[vec_size - 1].val
    /\ vec_ret.a # 0

\* C27: get(index) with index < size() returns Ok(reference to element
\* index of the slice) and refers to that element only; with
\* index >= size() it returns Err(OutOfBounds{index, size()}) and refers to
\* no element; the slice itself is unchanged.
C27_CheckedGet ==
    [][\A index \in 0..(SliceLen + 1) : slice_get(index) =>
          /\ IF index < slice_size
                THEN /\ slice_ret'.tag = "OkRef"
                     /\ slice_ret'.a = slice_data + index
                     /\ slice_ret'.b = Buffer[slice_data + index]
                     /\ slice_access' = {slice_data + index}
                     /\ slice_access' \subseteq SliceRange(slice_data, slice_size)
                ELSE /\ slice_ret' = OutOfBounds("get", index, slice_size)
                     /\ slice_access' = {}
          /\ UNCHANGED <<slice_data, slice_size>>
      ]_vars

\* the first index past the end of a subslice that ends inside the buffer
\* was refused
C27_Witness ==
    /\ slice_data >= 1
    /\ slice_size >= 1
    /\ slice_data + slice_size < SliceLen
    /\ slice_ret = OutOfBounds("get", slice_size, slice_size)

\* C28: subslice(start, end) returns Ok iff start <= end <= size(); the Ok
\* slice has size end - start, its element k is element start + k of the
\* slice it came from and it lies inside that slice; otherwise the result is
\* Err(OutOfBounds).  No slice reached this way extends past the buffer.
C28_CheckedSubslice ==
    /\ [][\A start, end \in 0..(SliceLen + 1) : slice_subslice(start, end) =>
             /\ IF start <= end /\ end <= slice_size
                   THEN /\ slice_ret'.tag = "OkSlice"
                        /\ slice_ret'.b = end - start
                        /\ \A k \in 0..(end - start - 1) :
                              slice_ret'.a + k = slice_data + start + k
                        /\ SliceRange(slice_ret'.a, slice_ret'.b)
                              \subseteq SliceRange(slice_data, slice_size)
                        /\ slice_ret'.a + slice_ret'.b
                              <= slice_data + slice_size
                   ELSE slice_ret'.tag = "OutOfBounds"
             /\ UNCHANGED <<slice_data, slice_size>>
         ]_vars
    /\ [][slice_unwrap =>
             /\ slice_data' >= slice_data
             /\ slice_data' + slice_size' <= slice_data + slice_size]_vars
    /\ [](slice_data + slice_size <= SliceLen)

\* a proper subslice of a proper subslice
C28_Witness ==
    /\ slice_data >= 1
    /\ slice_data + slice_size < SliceLen + 1
    /\ slice_ret.tag = "OkSlice"
    /\ slice_ret.a > slice_data
    /\ slice_ret.b >= 1

\* ------------------------------------------------------- index ranges
\* the slots the loop of ~StaticRingBuffer and clear_unsafe passes to
\* slot_ptr (lines 57-60, 231-234)
RECURSIVE DrainSlots(_, _)
DrainSlots(head, tail) ==
    IF head = tail THEN {} ELSE {head} \cup DrainSlots(increment(head), tail)

\* the indices that the operations in progress pass to slot_ptr: try_push and
\* try_emplace their current_tail (lines 93, 112, 131), try_pop and front
\* their current_head (lines 166, 187), and the destructor or clear_unsafe
\* that may run now every index of its loop
SlotPtrArgs ==
    (IF p_pc \in {"construct", "constructing"} THEN {p_tail} ELSE {})
    \cup (IF c_pc \in {"move", "destroy"} THEN {c_head} ELSE {})
    \cup (IF c_ret.tag = "ptr" THEN {c_ret.val} ELSE {})
    \cup (IF alive /\ p_pc = "idle" /\ c_pc = "idle" /\ ~trivial
             THEN DrainSlots(HeadVal, TailVal) ELSE {})

\* C29: in every reachable state head and tail (every store of either index
\* that is still readable, and each thread's local copy and successor) lie
\* in 0 .. Capacity-1, and so does every index passed to slot_ptr by
\* try_push, try_emplace, try_pop, front, clear_unsafe and the destructor.
C29_IndicesInRange ==
    /\ \A k \in 1..Len(m_head) : m_head[k] \in Slots
    /\ \A k \in 1..Len(m_tail) : m_tail[k] \in Slots
    /\ p_pc # "idle" => p_tail \in Slots /\ p_next \in Slots
    /\ c_pc # "idle" => c_head \in Slots
    /\ SlotPtrArgs \subseteq Slots

\* the destructor has drained a buffer whose elements wrap around the end of
\* the storage, after a clear_unsafe, pops and a front that returned a slot
C29_Witness ==
    /\ ~alive /\ ~trivial
    /\ clears > 0
    /\ TailVal < HeadVal
    /\ Len(popped) > 0
    /\ c_ret.tag = "ptr"
    /\ dtor_count >= 3

\* ------------------------------------------------------ index movement
\* C30: every step of the producer/consumer protocol leaves the pair
\* (head, tail) unchanged or moves exactly one of the two to its successor
\* modulo Capacity.  The step that completes a successful push moves tail and
\* leaves head; the step that completes a successful pop moves head and
\* leaves tail; no other step moves either index.
C30_StepByOne ==
    [][/\ \/ HeadVal' = HeadVal /\ TailVal' = TailVal
          \/ HeadVal' = HeadVal /\ TailVal' = (TailVal + 1) % Capacity
          \/ TailVal' = TailVal /\ HeadVal' = (HeadVal + 1) % Capacity
       /\ (p_pc = "publish" /\ p_ret' = "true") <=> TailVal' # TailVal
       /\ (c_pc = "publish" /\ c_ret'.tag = "Some") <=> HeadVal' # HeadVal
       /\ Distance(TailVal, TailVal') \in {0, 1}
       /\ Distance(HeadVal, HeadVal') \in {0, 1}
      ]_vars

\* both indices have wrapped around the end of the storage, one step at a
\* time, and the last push and the last pop both succeeded
C30_Witness ==
    /\ Len(pushed) > Capacity
    /\ Len(popped) >= Capacity
    /\ HeadVal = 0
    /\ TailVal = Len(pushed) % Capacity
    /\ p_ret = "true"
    /\ c_ret.tag = "Some"

\* ------------------------------------------------------ indefinite reuse
\* the elements already returned by try_pop leave the recorded history and
\* the count of destructor calls starts afresh, so that a run of any length
\* is followed with bounded records
forget_popped ==
    /\ Len(popped) > 0
    /\ pushed' = SubSeq(pushed, Len(popped) + 1, Len(pushed))
    /\ popped' = <<>>
    /\ dtor_count' = 0
    /\ UNCHANGED <<shared, p_vars, c_vars, freed, p_head, p_q, c_q, cycle,
                   trivial, alive, clears, lib>>

\* producer and consumer running concurrently for as long as they like
ReuseNext == ProducerOne \/ Consumer \/ forget_popped

ReuseSpec == Init /\ [][ReuseNext]_vars

\* steps the consumer still needs to finish the call in flight (or a whole
\* try_pop when idle), lines 159-172 and 183-187
PopRem ==
    CASE c_pc = "idle" -> 5
      [] c_pc = "check" /\ c_op = "front" -> 6
      [] c_pc = "check" /\ c_op = "try_pop" -> 4
      [] c_pc = "move" -> 3
      [] c_pc = "destroy" -> 2
      [] c_pc = "publish" -> 1

\* steps the producer still needs to finish the push in flight (or a whole
\* push when idle), lines 85-96
PushRem ==
    CASE p_pc = "idle" -> 5
      [] p_pc = "check" -> 4
      [] p_pc = "construct" -> 3
      [] p_pc = "constructing" -> 2
      [] p_pc = "publish" -> 1

\* consumer steps from here to the empty state: one try_pop per element
RankEmpty == 5 * (Distance(HeadVal, TailVal) - 1) + PopRem

\* producer steps from here to the full state: one push per free place
RankFull ==
    6 * (capacity - Distance(HeadVal, TailVal)) + PushRem
      + (IF Len(pushed) >= MaxPush THEN 1 ELSE 0)

mp_rest == <<p_vars, c_vars, popped, freed, dtor_count, p_head, p_q, c_q,
             cycle, trivial, alive, clears, mutex_vars, vec_vars, slice_vars,
             size_vars>>

\* try_push on thread t: the call, the relaxed load of m_tail, which returns
\* any store not older than the newest one the thread has observed, and
\* increment (lines 85-86); as many calls are followed as there are threads
mp_try_push(t) ==
    /\ mp_pc[t] = "idle"
    /\ mp_calls < NumThreads
    /\ mp_calls' = mp_calls + 1
    /\ \E k \in mp_obs[t]..Len(mp_hist) :
        /\ mp_tail' = [mp_tail EXCEPT ![t] = mp_hist[k]]
        /\ mp_next' = [mp_next EXCEPT ![t] = increment(mp_hist[k])]
        /\ mp_from' = [mp_from EXCEPT ![t] = k]
        /\ mp_obs' = [mp_obs EXCEPT ![t] = k]
    /\ mp_arg' = [mp_arg EXCEPT ![t] = t]
    /\ mp_pc' = [mp_pc EXCEPT ![t] = "check"]
    /\ mp_ret' = [mp_ret EXCEPT ![t] = "none"]
    /\ UNCHANGED <<shared, pushed, mp_hist, mp_rest>>

\* the acquire load of m_head and the full test (lines 88-90)
mp_check(t) ==
    /\ mp_pc[t] = "check"
    /\ \E k \in 1..Len(m_head) :
        IF mp_next[t] = m_head[k]
           THEN /\ mp_pc' = [mp_pc EXCEPT ![t] = "idle"]
                /\ mp_ret' = [mp_ret EXCEPT ![t] = "false"]
           ELSE /\ mp_pc' = [mp_pc EXCEPT ![t] = "construct"]
                /\ UNCHANGED mp_ret
    /\ UNCHANGED <<shared, pushed, mp_arg, mp_tail, mp_next, mp_from, mp_obs,
                   mp_hist, mp_calls, mp_rest>>

\* placement new starts (line 93)
mp_construct_begin(t) ==
    /\ mp_pc[t] = "construct"
    /\ m_storage' = [m_storage EXCEPT ![mp_tail[t]] =
                        [st |-> "partial", val |-> 0]]
    /\ mp_pc' = [mp_pc EXCEPT ![t] = "constructing"]
    /\ UNCHANGED <<m_head, m_tail, pushed, mp_arg, mp_tail, mp_next, mp_ret,
                   mp_from, mp_obs, mp_hist, mp_calls, mp_rest>>

\* the values a slot may end up with when thread t completes its placement
\* new: its own, or that of a thread constructing the same slot at the same
\* time (unsynchronised writes of one object: a data race)
RaceValues(t) ==
    {mp_arg[t]} \cup
    {mp_arg[u] : u \in {w \in Threads \ {t} :
                           /\ mp_tail[w] = mp_tail[t]
                           /\ mp_pc[w] \in {"constructing", "publish"}}}

\* placement new completes (line 93)
mp_construct_end(t) ==
    /\ mp_pc[t] = "constructing"
    /\ \E v \in RaceValues(t) :
         m_storage' = [m_storage EXCEPT ![mp_tail[t]] = LiveSlot(v)]
    /\ mp_pc' = [mp_pc EXCEPT ![t] = "publish"]
    /\ UNCHANGED <<m_head, m_tail, pushed, mp_arg, mp_tail, mp_next, mp_ret,
                   mp_from, mp_obs, mp_hist, mp_calls, mp_rest>>

\* variant: the tail is advanced by an atomic increment of its newest value
mp_publish_fetch_add(t) ==
    /\ mp_pc[t] = "publish"
    /\ m_tail' = Append(m_tail, increment(TailVal))
    /\ mp_hist' = Append(mp_hist, increment(TailVal))
    /\ mp_obs' = [mp_obs EXCEPT ![t] = Len(mp_hist) + 1]
    /\ mp_pc' = [mp_pc EXCEPT ![t] = "idle"]
    /\ mp_ret' = [mp_ret EXCEPT ![t] = "true"]
    /\ pushed' = Append(pushed, mp_arg[t])
    /\ UNCHANGED <<m_storage, m_head, mp_arg, mp_tail, mp_next, mp_from,
                   mp_calls, mp_rest>>

\* release store of next_tail to m_tail, return true (lines 95-96)
mp_publish(t) ==
    /\ mp_pc[t] = "publish"
    /\ m_tail' = Append(m_tail, mp_next[t])
    /\ mp_hist' = Append(mp_hist, mp_next[t])
    /\ mp_obs' = [mp_obs EXCEPT ![t] = Len(mp_hist) + 1]
    /\ mp_pc' = [mp_pc EXCEPT ![t] = "idle"]
    /\ mp_ret' = [mp_ret EXCEPT ![t] = "true"]
    /\ pushed' = Append(pushed, mp_arg[t])
    /\ UNCHANGED <<m_storage, m_head, mp_arg, mp_tail, mp_next, mp_from,
                   mp_calls, mp_rest>>

\* one step of thread t inside or into try_push
MultiProducer(t) ==
    \/ mp_try_push(t)
    \/ mp_check(t)
    \/ mp_construct_begin(t)
    \/ mp_construct_end(t)
    \/ mp_publish(t)

\* the consumer thread calling try_pop
ConsumerPop ==
    \/ try_pop
    \/ try_pop_check
    \/ try_pop_move
    \/ try_pop_destroy
    \/ try_pop_publish

MultiNext == (\E t \in Threads : MultiProducer(t)) \/ ConsumerPop

MultiSpec == Init /\ [][MultiNext]_vars

\* the last calls of threads t and u both returned true after loading the
\* same store of m_tail
Collided(t, u) ==
    /\ t # u
    /\ mp_ret[t] = "true" /\ mp_ret[u] = "true"
    /\ mp_from[t] = mp_from[u]

\* C32: a thread inside try_push is never held up or refused because of
\* another thread's try_push.  Two calls that loaded the same tail both
\* construct into the same slot and store the same next_tail, and both
\* return true; when these are the only two pushes so far, tail has advanced
\* by one only, at most one element is live once no push is in progress, and
\* the elements popped plus those left to pop number one, not two.
C32_UndetectedCollision ==
    /\ \A t \in Threads : mp_pc[t] # "idle" =>
          ENABLED (mp_check(t) \/ mp_construct_begin(t)
                     \/ mp_construct_end(t) \/ mp_publish(t))
    /\ \A t, u \in Threads : Collided(t, u) =>
          /\ mp_tail[t] = mp_tail[u]
          /\ mp_next[t] = mp_next[u]
          /\ Len(mp_hist) = 3 =>
                /\ TailVal = increment(mp_tail[t])
                /\ Len(pushed) = 2
                /\ (\A w \in Threads : mp_pc[w] = "idle") => LiveCount <= 1
                /\ Len(popped) + Distance(HeadVal, TailVal) = 1

\* both calls returned true, the consumer has popped one element and then
\* found the buffer empty: the other value is lost
C32_Witness ==
    /\ Collided(1, 2)
    /\ \A t \in Threads : mp_pc[t] = "idle"
    /\ Len(pushed) = 2
    /\ Len(popped) = 1
    /\ EmptyNow
    /\ c_pc = "idle" /\ c_ret = NoneRet
    /\ LiveCount = 0

\* ----------------------------------------------------- linearizability
\* the step in which a push returns false (lines 88-90) and the step in
\* which try_pop returns None (lines 161-163)
PushFails == p_pc = "check" /\ p_pc' = "idle"
PopFails == c_pc = "check" /\ c_op = "try_pop" /\ c_pc' = "idle"

\* the step that stores the new tail (lines 95-96) and the step that stores
\* the new head (lines 170-172)
PushStores == p_pc = "publish" /\ p_pc' = "idle"
PopStores == c_pc = "publish" /\ c_pc' = "idle"

\* a successful push appends its value to the queue at its tail store, a
\* successful pop removes and returns the oldest value at its head store, no
\* other step changes the queue, and the queue never exceeds Capacity - 1
QueueSteps ==
    /\ [](/\ IsPrefix(popped, pushed)
          /\ Len(Queue) = Distance(HeadVal, TailVal)
          /\ Len(Queue) <= capacity)
    /\ [][/\ PushStores =>
                Queue' = Append(Queue, p_arg) /\ p_ret' = "true"
          /\ PopStores =>
                Queue = <<c_ret'.val>> \o Queue' /\ c_ret'.tag = "Some"
          /\ ~(PushStores \/ PopStores) => Queue' = Queue
         ]_vars

\* C33 as stated: besides QueueSteps, a push that returns false finds
\* Capacity - 1 elements in the queue at the instant of its load of head, and
\* a try_pop that returns None finds the queue empty at the instant of its
\* load of tail.
C33_Linearizable ==
    /\ QueueSteps
    /\ [][/\ PushFails => Len(Queue) = capacity
          /\ PopFails => Queue = <<>>
         ]_vars

\* C33 amended: the same, for a load that returns the newest store of the
\* other thread's index.
C33_LinearizableWhenObserved ==
    /\ QueueSteps
    /\ [][/\ (PushFails /\ Len(m_head') = 1) => Len(Queue) = capacity
          /\ (PopFails /\ Len(m_tail') = 1) => Queue = <<>>
         ]_vars

\* after pops and a wrapped tail the producer has been refused on a full
\* queue of two different values and the consumer has popped since
C33_Witness ==
    /\ p_pc = "idle" /\ p_ret = "false"
    /\ c_pc = "idle" /\ c_ret.tag = "Some"
    /\ Len(popped) >= 2
    /\ Len(pushed) >= Capacity
    /\ Len(Queue) = capacity - 1
    /\ Queue[1] # popped[Len(popped)]

\* ------------------------------------------------- answers that stay valid
\* a push called on the producer thread: as push_begin, with the answer of
\* the query that the thread made just before the call kept on record
\* (lines 85-86, 105-106, 124-125)
push_after_query(op) ==
    /\ p_pc = "idle"
    /\ Len(pushed) < MaxPush
    /\ p_pc' = "check"
    /\ p_op' = op
    /\ p_arg' = 1
    /\ p_tail' = TailVal
    /\ p_next' = increment(TailVal)
    /\ p_ret' = "none"
    /\ p_avail' = freed
    /\ p_seen' = (increment(TailVal) # m_head[1])
    /\ p_q' = IF p_ret = "none" THEN p_q ELSE NoRet
    /\ UNCHANGED <<shared, c_vars, pushed, popped, freed, dtor_count, p_head,
                   c_q, cycle, trivial, alive, clears, lib>>

\* try_pop called on the consumer thread: as consumer_begin, with the answer
\* of the query that the thread made just before the call kept on record
\* (line 159)
try_pop_after_query ==
    /\ c_pc = "idle"
    /\ c_pc' = "check"
    /\ c_op' = "try_pop"
    /\ c_head' = HeadVal
    /\ c_value' = 0
    /\ c_ret' = NoRet
    /\ c_avail' = (Len(pushed) > Len(popped))
    /\ c_seen' = (m_tail[1] # HeadVal)
    /\ c_q' = IF c_ret = NoRet THEN c_q ELSE NoRet
    /\ UNCHANGED <<shared, p_vars, pushed, popped, freed, dtor_count, p_head,
                   p_q, cycle, trivial, alive, clears, lib>>

\* each thread mixing its own query with its operations, concurrently
AnswerNext ==
    \/ push_after_query("try_push_copy")
    \/ push_after_query("try_push_move")
    \/ push_after_query("try_emplace")
    \/ push_check
    \/ push_construct_begin
    \/ push_construct_end
    \/ push_publish
    \/ is_full
    \/ is_full_check
    \/ try_pop_after_query
    \/ try_pop_check
    \/ try_pop_move
    \/ try_pop_destroy
    \/ try_pop_publish
    \/ front
    \/ front_check
    \/ is_empty
    \/ is_empty_check

AnswerSpec == Init /\ [][AnswerNext]_vars

\* the thread's query answered false and its next call was a push / a try_pop
IsFullFalse == p_q = BoolRet("is_full", FALSE)
IsEmptyFalse == c_q = BoolRet("is_empty", FALSE)

\* the step in which a push returns (lines 89, 96) and the step in which
\* try_pop returns (lines 162, 172)
TryPushReturns == p_pc \in {"check", "publish"} /\ p_pc' = "idle"
TryPopReturns ==
    c_op = "try_pop" /\ c_pc \in {"check", "publish"} /\ c_pc' = "idle"

\* C34: whatever the other thread does meanwhile, the push that follows
\* is_full() == false on the producer thread does not return false, and the
\* try_pop that follows is_empty() == false, or a front() that returned an
\* element, on the consumer thread does not return None: once complete they
\* have returned true and Some.
C34_NegativeAnswerHolds ==
    /\ [](IsFullFalse =>
             /\ p_ret # "false"
             /\ p_pc \in {"check", "construct", "constructing", "publish"}
                   => p_seen)
    /\ [](IsEmptyFalse =>
             /\ c_ret.tag \notin {"None", "nullptr"}
             /\ (c_pc # "idle" /\ c_op = "try_pop") => c_seen)
    /\ [][(IsFullFalse /\ TryPushReturns) => p_ret' = "true"]_vars
    /\ [][(IsEmptyFalse /\ TryPopReturns) => c_ret'.tag = "Some"]_vars
    /\ [][(FrontReturned /\ c_pc' = "check") => c_seen']_vars
    /\ [][(c_seen /\ TryPopReturns) => c_ret'.tag = "Some"]_vars

\* is_full() answered false while the buffer had one free place, the consumer
\* then popped, and the push returned true; is_empty() answered false and the
\* try_pop after it returned Some while the producer was pushing
C34_Witness ==
    /\ IsFullFalse /\ p_pc = "idle" /\ p_ret = "true"
    /\ IsEmptyFalse /\ c_pc = "idle" /\ c_ret.tag = "Some"
    /\ Len(popped) >= 2
    /\ Len(pushed) > Capacity

\* ------------------------------------------------- the slot front() lent
\* the consumer holds the pointer front() returned, or is inside the try_pop
\* it called next and has not yet stored the new head
HoldsFront ==
    \/ FrontReturned
    \/ c_seen /\ c_op = "try_pop" /\ c_pc \in {"check", "move", "destroy",
                                                "publish"}

\* the slot the producer's placement new writes, if one is under way
\* (lines 93, 112, 131)
ProducerTarget ==
    IF p_pc \in {"construct", "constructing"} THEN {p_tail} ELSE {}

\* C35: from the return of a non-null front() until the consumer's next
\* try_pop stores the new head, the slot the pointer refers to is slot head
\* and no push of the producer, however many it makes, constructs into it:
\* while the pointer is held and the consumer has not touched the slot, it
\* keeps holding the oldest element, and that is the value try_pop returns.
C35_FrontSlotUntouched ==
    /\ [](FrontReturned =>
             /\ c_ret.val = HeadVal
             /\ m_storage[c_ret.val] = LiveSlot(Queue[1]))
    /\ [](HoldsFront => HeadVal \notin ProducerTarget)
    /\ []((c_seen /\ c_op = "try_pop" /\ c_pc \in {"check", "move"}) =>
             c_head = HeadVal /\ m_storage[c_head] = LiveSlot(Queue[1]))
    /\ [][(FrontReturned /\ FrontReturned') =>
             /\ c_ret' = c_ret
             /\ m_storage'[c_ret.val] = m_storage[c_ret.val]
             /\ Queue'[1] = Queue[1]]_vars
    /\ [][(FrontReturned /\ c_pc' = "check") =>
             c_seen' /\ c_head' = c_ret.val]_vars
    /\ [][(c_seen /\ TryPopReturns) =>
             c_ret' = SomeRet(Queue[1]) /\ HeadVal' = increment(c_head)]_vars

\* the pointer is held while the producer, after earlier pops, constructs
\* the element that fills the buffer, two slots before the slot lent out
C35_Witness ==
    /\ FrontReturned
    /\ p_pc = "constructing"
    /\ increment(increment(p_tail)) = c_ret.val
    /\ Len(popped) >= 1
    /\ Len(pushed) >= Capacity - 1

\* ------------------------------------------------ the range of size_approx
\* the unsigned values size_approx computes on the way to its result, in
\* evaluation order (lines 209-212)
SizeTerms(head, tail) ==
    IF tail >= head THEN <<tail - head>>
                    ELSE <<Capacity - head, Capacity - head + tail>>

\* the index pairs a size_approx call under way may combine: the head it
\* loaded with any tail it may load next (lines 206-207)
SizeLoads ==
    (IF p_pc = "size_tail" THEN {<<p_head, TailVal>>} ELSE {})
    \cup (IF c_pc = "size_tail"
            THEN {<<c_head, m_tail[k]>> : k \in 1..Len(m_tail)} ELSE {})

\* C37: size_approx() returns a value in 0 .. Capacity - 1, never more than
\* capacity(), in every interleaving with pushes and pops, also when the
\* other index moved between the two loads; no value it computes on the way
\* is negative, for the indices a call loads and for any two valid indices.
C37_SizeInRange ==
    /\ p_q.tag = "size_approx" => p_q.val \in 0..(Capacity - 1)
    /\ c_q.tag = "size_approx" => c_q.val \in 0..(Capacity - 1)
    /\ p_q.tag = "size_approx" => p_q.val <= capacity
    /\ c_q.tag = "size_approx" => c_q.val <= capacity
    /\ \A ht \in SizeLoads :
          /\ \A i \in 1..Len(SizeTerms(ht[1], ht[2])) :
                SizeTerms(ht[1], ht[2])[i] \in 0..Capacity
          /\ SizeOf(ht[1], ht[2]) \in 0..(Capacity - 1)
          /\ SizeOf(ht[1], ht[2]) =
                SizeTerms(ht[1], ht[2])[Len(SizeTerms(ht[1], ht[2]))]
    /\ \A h, t \in 0..(Capacity - 1) :
          /\ SizeOf(h, t) \in 0..(Capacity - 1)
          /\ \A i \in 1..Len(SizeTerms(h, t)) : SizeTerms(h, t)[i] \in Nat

\* the producer's size_approx() took the wrapped branch with a head loaded
\* before the consumer emptied the buffer, and returned Capacity - 1
C37_Witness ==
    /\ p_pc = "idle"
    /\ p_q = SizeRet(Capacity - 1)
    /\ TailVal < p_head
    /\ p_head # HeadVal
    /\ HeadVal = TailVal

\* -------------------------------------- size_approx against the true size
\* the lib variables a size_approx call leaves alone
size_rest == <<mutex_vars, vec_vars, slice_vars, mp_vars>>

\* the number of elements between the two indices: pushes whose tail store
\* and not yet whose pop's head store has been made (lines 95, 170)
TrueSize == Distance(HeadVal, TailVal)

\* size_approx called on the producer thread: the call and its acquire load
\* of m_head (lines 205-206), with the true size at that instant recorded
p_size_approx_call ==
    /\ p_pc = "idle"
    /\ \E k \in 1..Len(m_head) :
        /\ m_head' = SubSeq(m_head, k, Len(m_head))
        /\ p_head' = m_head[k]
    /\ p_pc' = "size_tail"
    /\ p_q' = NoRet
    /\ p_ret' = "none"
    /\ size_at_call' = [size_at_call EXCEPT !.producer = TrueSize]
    /\ UNCHANGED <<m_storage, m_tail, p_op, p_arg, p_tail, p_next,
                   p_avail, p_seen, c_vars, pushed, popped, freed, dtor_count,
                   c_q, cycle, trivial, alive,
                   clears, size_rest>>

\* size_approx called on the consumer thread: the call and its load of
\* m_head (lines 205-206), with the true size at that instant recorded
c_size_approx_call ==
    /\ c_pc = "idle"
    /\ c_pc' = "size_tail"
    /\ c_head' = HeadVal
    /\ c_q' = NoRet
    /\ c_ret' = NoRet
    /\ size_at_call' = [size_at_call EXCEPT !.consumer = TrueSize]
    /\ UNCHANGED <<shared, p_vars, c_op, c_value, c_avail, c_seen,
                   pushed, popped, freed, dtor_count, p_head, p_q, cycle,
                   trivial, alive,
                   clears, size_rest>>

\* pushes and pops with size_approx called from either thread
SizeNext ==
    \/ ProducerOne
    \/ p_size_approx_call
    \/ p_size_approx_tail
    \/ try_pop
    \/ try_pop_check
    \/ try_pop_move
    \/ try_pop_destroy
    \/ try_pop_publish
    \/ c_size_approx_call
    \/ c_size_approx_tail

SizeSpec == Init /\ [][SizeNext]_vars

\* during a call on the consumer thread the true size only grows, during a
\* call on the producer thread it only shrinks: the smallest and the largest
\* true size of a call are those at its start and at its end
SizeMonotone ==
    /\ (c_pc = "size_tail" /\ c_pc' = "size_tail") => TrueSize' >= TrueSize
    /\ (p_pc = "size_tail" /\ p_pc' = "size_tail") => TrueSize' <= TrueSize
    /\ c_pc = "size_tail" => TrueSize >= size_at_call.consumer
    /\ p_pc = "size_tail" => TrueSize <= size_at_call.producer

\* C38 as stated: the value size_approx() returns lies between the smallest
\* and the largest true size the buffer had during the call.
C38_SizeWasTrue ==
    [][/\ SizeMonotone
       /\ c_size_approx_tail =>
             c_q'.val \in size_at_call.consumer .. TrueSize
       /\ p_size_approx_tail =>
             p_q'.val \in TrueSize .. size_at_call.producer
      ]_vars

\* C38, for a call whose acquire load returns the other thread's newest
\* store: the value size_approx() returns is the distance from head to tail
\* at the instant of that load, which lies between the smallest and the
\* largest true size during the call.  Whatever the load returns, a call on
\* the consumer thread never returns more than the largest true size during
\* the call and a call on the producer thread never less than the smallest.
C38_SizeWasTrueWhenObserved ==
    [][/\ SizeMonotone
       /\ c_size_approx_tail =>
             /\ c_q'.tag = "size_approx"
             /\ c_q'.val <= TrueSize
       /\ (c_size_approx_tail /\ Len(m_tail') = 1) =>
             /\ c_q'.val = TrueSize
             /\ c_q'.val \in size_at_call.consumer .. TrueSize
       /\ (p_size_approx_call /\ Len(m_head') = 1) =>
             SizeOf(p_head', TailVal) = size_at_call'.producer
       /\ p_size_approx_tail =>
             /\ p_q' = SizeRet(SizeOf(p_head, TailVal))
             /\ p_q'.val >= TrueSize
             /\ (p_q'.val = size_at_call.producer =>
                    p_q'.val \in TrueSize .. size_at_call.producer)
      ]_vars

\* size_approx() on the consumer thread, called on an empty buffer that
\* pushes filled during the call, has returned a size in between, and on the
\* producer thread it has returned the size of the full buffer
C38_Witness ==
    /\ p_pc = "idle" /\ c_pc = "idle"
    /\ c_q = SizeRet(1)
    /\ size_at_call.consumer = 0
    /\ Len(m_tail) = 2
    /\ p_q = SizeRet(Capacity - 1)
    /\ size_at_call.producer = Capacity - 1
    /\ TrueSize = Capacity - 1

\* ------------------------------------------------ progress of the retries
\* a release store of head reaches the producer: the oldest store of m_head
\* still readable is replaced, within finite time, by the one after it
\* (m_head.store(release), line 170; m_head.load(acquire), line 88)
head_visible ==
    /\ Len(m_head) > 1
    /\ m_head' = SubSeq(m_head, 2, Len(m_head))
    /\ UNCHANGED <<m_storage, m_tail, p_vars, c_vars, pushed, popped, freed,
                   dtor_count, aux>>

\* a release store of tail reaches the consumer likewise
\* (m_tail.store(release), line 95; m_tail.load(acquire), line 161)
tail_visible ==
    /\ Len(m_tail) > 1
    /\ m_tail' = SubSeq(m_tail, 2, Len(m_tail))
    /\ UNCHANGED <<m_storage, m_head, p_vars, c_vars, pushed, popped, freed,
                   dtor_count, aux>>

\* the producer thread calling try_push again and again (lines 82-97)
RetryPush ==
    \/ try_push_copy(1)
    \/ push_check
    \/ push_construct_begin
    \/ push_construct_end
    \/ push_publish

\* the consumer thread calling try_pop again and again (lines 155-173)
RetryPop ==
    \/ try_pop
    \/ try_pop_check
    \/ try_pop_move
    \/ try_pop_destroy
    \/ try_pop_publish

\* the recorded history is cut back when it has reached its bound
forget_when_full == Len(pushed) >= MaxPush /\ forget_popped

FairNext ==
    \/ RetryPush
    \/ RetryPop
    \/ head_visible
    \/ tail_visible
    \/ forget_when_full

\* both threads are scheduled fairly and keep calling; a store becomes
\* visible to the other thread within finite time
FairSpec ==
    /\ Init
    /\ [][FairNext]_vars
    /\ WF_vars(RetryPush)
    /\ WF_vars(RetryPop)
    /\ WF_vars(head_visible)
    /\ WF_vars(tail_visible)
    /\ WF_vars(forget_when_full)

\* C36: under fair scheduling, with both threads retrying, a try_push that
\* returned false is followed by one that returns true, a try_pop that
\* returned None is followed by one that returns Some, and every element
\* constructed in a slot is eventually moved out of it by try_pop.
C36_RetriesSucceed ==
    /\ (p_pc = "idle" /\ p_ret = "false") ~> (p_ret = "true")
    /\ (c_pc = "idle" /\ c_ret = NoneRet) ~> (c_ret.tag = "Some")
    /\ \A s \in Slots :
          (m_storage[s].st = "live") ~> (m_storage[s].st # "live")

\* both threads have just been refused: the producer found the buffer full
\* and the consumer, reading an older tail, found it empty
C36_Witness ==
    /\ p_pc = "idle" /\ p_ret = "false"
    /\ c_pc = "idle" /\ c_ret = NoneRet
    /\ FullNow
    /\ LiveCount = Capacity - 1

====
